---- MODULE Spec2Model ----
(***************************************************************************)
(* ghacron: the dispatch handler of scheduler/scheduler.go                 *)
(* (createJobHandler), the state store of scheduler/state.go and the       *)
(* durable repository variable they share.                                 *)
(*                                                                         *)
(* Time is counted in ticks, TicksPerSecond ticks to the second, so that   *)
(* the truncation of time.Now() to whole seconds by                        *)
(* Time.Format(time.RFC3339) is visible.  A text held by the durable       *)
(* variable is a record [kind, sec]: kind "empty" is the empty string (or  *)
(* an absent variable, which Client.GetVariable turns into ""), kind "bad" *)
(* is a text time.Parse rejects, kind "rfc3339" is the RFC3339 text of the *)
(* whole second sec.                                                       *)
(*                                                                         *)
(* Several invocations of the handler of one job key run concurrently      *)
(* (overlapping cron ticks, or two instances of the service sharing the    *)
(* variable).  Every call to the remote platform is one atomic step of the *)
(* invocation that makes it; the local computation that follows a call     *)
(* belongs to the next step.  The 30 s deadline of the handler's context   *)
(* shows only as the failure of a remote call, which every remote call may *)
(* do at any time.                                                         *)
(*                                                                         *)
(* The module also holds the Scheduler's registry and its cron engine      *)
(* (AddJob, RemoveJob, GetRegisteredKeys), the Scanner's validation, the   *)
(* Reconciler (Reconcile), the reconcile loop (RunReconcileLoop,           *)
(* runReconcile) and the shutdown (main's cancel() and Scheduler.Stop).    *)
(* Spec is the dispatch handler; SpecSched is the reconcile loop fed by    *)
(* the Scanner; SpecUntrusted is the same loop fed with annotations no     *)
(* validator has filtered; SpecJobs is the registry under direct AddJob    *)
(* and RemoveJob calls; SpecShutdown is the handlers of the running cron   *)
(* engine while main cancels the reconcile context and calls Stop;         *)
(* SpecFire is one job key added and removed while the engine fires its    *)
(* entries; SpecCalls is the functions called on their own (ScanAll,       *)
(* parseFile, HasWorkflowDispatch, variableName, GetLastDispatchTime,      *)
(* SetVariable and the location a job runs in), arg being the input and    *)
(* ret the result.  SpecFaults is the reconcile loop on a repository whose *)
(* file listing or file reading fails; SpecRefs is the loop scanning one   *)
(* file under changing default branches while the engine fires the entry;  *)
(* SpecStopLoop adds main's Stop to it.                                    *)
(* A cron expression is one of a few texts, standard, invalid or with a    *)
(* time zone prefix; an annotation is a record CronAnnotation and its key  *)
(* is the record without the ref.  A workflow file is a sequence of lines, *)
(* each a record of what the parser looks at.                              *)
(***************************************************************************)
EXTENDS Integers, Sequences, FiniteSets, TLC

\* ---------------------------------------------------------------- bounds

\* Resolution of the clock: ticks per second.
TicksPerSecond == 2

\* The clock runs from 0 to MaxClock ticks.
MaxClock == 3

\* DuplicateGuardSeconds is drawn from 0..MaxGuardSeconds.
MaxGuardSeconds == 1

\* The variable initially holds the text of a second in 0..MaxStoredSec.
MaxStoredSec == 1

\* Raw cron expressions in one scan, Reconcile iterations of one run, and
\* cron entry IDs handed out to direct AddJob calls.
MaxScanLen == 2
MaxIterations == 3
MaxEntryID == 3

\* Lines of a workflow file given to the parser on its own.
MaxLines == 3

\* Repositories of the installation and workflow files of a repository
\* given to ScanAll on its own.
MaxRepos == 2

MaxFiles == 2

\* The second of time.Time{} (0001-01-01T00:00:00Z) on the model's scale:
\* far before every instant the clock reaches.
ZeroSec == 0 - 1000

\* The invocations of the handler of one job key that run concurrently:
\* two overlapping cron ticks, or one tick in each of two instances.
Handlers == {1, 2}

\* ------------------------------------------------------------------ state

VARIABLES
    clock,          \* time.Now(), in ticks
    store,          \* the durable variable GHACRON_LAST_xxxxxxxx of the job
    guardSeconds,   \* config.DuplicateGuardSeconds
    dryRun,         \* config.DryRun
    pc,             \* pc[h]: where invocation h of the handler stands
    startT,         \* startT[h]: clock when the cron tick started h
    lastDispatch,   \* lastDispatch[h]: the handler's local of that name
    getErr,         \* getErr[h]: err of GetLastDispatchTime was non-nil
    guardT,         \* guardT[h]: clock when h evaluated the guard
    now,            \* now[h]: the handler's local of that name
    setVarArgs,     \* setVarArgs[h]: values h passed to SetVariable, in order
    preSave,        \* preSave[h]: "none", "ok" or "failed"
    dispatchCalls,  \* dispatchCalls[h]: DispatchWorkflow calls made by h
    outcome,        \* outcome[h]: "none", "ok", "failed" or "lost"
    prior,          \* prior[h]: invocations that had dispatched when h started
    platformRuns,   \* workflow runs the platform has started
    readValue,      \* readValue[h]: kind of result Client.GetVariable gave h
    sawCancel       \* sawCancel[h]: a call of h found h's context cancelled

handlerVars == <<clock, store, guardSeconds, dryRun, pc, startT, lastDispatch,
                 getErr, guardT, now, setVarArgs, preSave, dispatchCalls,
                 outcome, prior, platformRuns, readValue, sawCancel>>

\* The Scheduler, its cron engine, the Reconciler and the reconcile loop.
VARIABLES
    registeredJobs, \* Scheduler.registeredJobs: CronJobKey -> cron.EntryID
    cronEntries,    \* the cron engine's entries: EntryID -> captured annotation
    nextID,         \* the cron engine's nextID counter
    loopPc,         \* where RunReconcileLoop stands
    tickPending,    \* a tick is waiting in ticker.C
    cancelled,      \* the context given to RunReconcileLoop is cancelled
    iter,           \* Reconcile iterations started so far
    recPc,          \* where the running Reconcile stands
    scanResult,     \* result of the running iteration's ScanAll
    desiredMap,     \* Reconcile's local of that name
    toAdd,          \* toAdd entries not yet passed to AddJob (keys)
    toRemove,       \* toRemove entries not yet passed to RemoveJob
    addCalls,       \* AddJob calls of the running or last iteration
    removeCalls,    \* RemoveJob calls of the running or last iteration
    addFailed,      \* keys whose AddJob failed in the running or last iteration
    recReturn,      \* what the last Reconcile returned: "none", "nil", "err"
    regBefore,      \* registeredJobs when the running or last iteration began
    entriesBefore,  \* cronEntries when the running or last iteration began
    prevScan,       \* scan result of the successful iteration before
    published,      \* the skipped list held for GetSkippedAnnotations
    lastReconcile,  \* Scheduler.lastReconcile: the iteration that last set it
    lastCall        \* the last AddJob or RemoveJob call: its key, whether the
                    \* key was registered, and whether it returned an error

schedVars == <<registeredJobs, cronEntries, nextID, loopPc, tickPending,
               cancelled, iter, recPc, scanResult, desiredMap, toAdd, toRemove,
               addCalls, removeCalls, addFailed, recReturn, regBefore,
               entriesBefore, prevScan, published, lastReconcile, lastCall>>

\* Shutdown: main calls cancel() and then Scheduler.Stop().
VARIABLES
    cronRunning,    \* the cron engine is running (started in New)
    stopPc,         \* Scheduler.Stop: "none", "waiting" or "returned"
    pcAtCancel,     \* pcAtCancel[h]: pc[h] when the context was cancelled
    pcAtStop        \* pcAtStop[h]: pc[h] when Stop was called

stopVars == <<cronRunning, stopPc, pcAtCancel, pcAtStop>>

\* The cron entry behind each handler invocation.
VARIABLES
    annotation,     \* annotation[h]: the annotation the closure of h captured
    invEntry,       \* invEntry[h]: EntryID of the cron entry that started h
    dispatchArgs    \* dispatchArgs[h]: what h passed to DispatchWorkflow

fireVars == <<annotation, invEntry, dispatchArgs>>

\* One call of a function of the program on its own: its input and result.
VARIABLES
    arg,            \* the input of the call
    ret             \* the result, NoRet until the call has been made

callVars == <<arg, ret>>

\* What went wrong in the scan of the running Reconcile iteration.
VARIABLES
    scanFault       \* "none", "files" (GetWorkflowFiles failed for the
                    \* repository) or "read" (GetFileContent failed for a.yml)

faultVars == <<scanFault>>

vars == <<handlerVars, schedVars, stopVars, fireVars, callVars, faultVars>>

Terminal == {"Guarded", "DryRun", "PreSaveFailed", "Ok", "DispatchFailed",
             "RolledBack", "RollbackFailed"}

\* ------------------------------------------------------- texts and times

EmptyText == [kind |-> "empty", sec |-> 0]
BadText == [kind |-> "bad", sec |-> 0]
Text(s) == [kind |-> "rfc3339", sec |-> s]

\* time.Time{}
ZeroTime == ZeroSec * TicksPerSecond

\* Time.IsZero
IsZero(t) == t = ZeroTime

\* A Format that cannot write instants before 1970 and writes 1970 instead.
FormatClampsToEpoch(t) == Text(IF t < 0 THEN 0 ELSE t \div TicksPerSecond)

\* Time.Format(time.RFC3339): the sub-second part is dropped.
FormatRFC3339(t) == Text(t \div TicksPerSecond)

\* time.Parse(time.RFC3339, value)
ParseRFC3339(value) ==
    IF value.kind = "rfc3339"
    THEN [t |-> value.sec * TicksPerSecond, err |-> FALSE]
    ELSE [t |-> ZeroTime, err |-> TRUE]

\* Client.GetVariable: the text of the variable; "" and no error when the
\* variable does not exist (404); "" and an error for any other failure.
GetVariable(stored, failed) ==
    IF failed THEN [value |-> EmptyText, err |-> TRUE]
    ELSE [value |-> stored, err |-> FALSE]

\* readValue[h] before h has called GetVariable.
NotRead == "none"

\* What readValue keeps of a GetVariable result: "error", or the kind of the
\* text returned ("empty", "bad", "rfc3339").
ReadKind(got) == IF got.err THEN "error" ELSE got.value.kind

\* GetLastDispatchTime without its value == "" branch: the empty text goes
\* to time.Parse.
GetLastDispatchTimeParsesEmpty(value, getVarErr) ==
    IF getVarErr THEN [t |-> ZeroTime, err |-> TRUE]
    ELSE ParseRFC3339(value)

\* GetLastDispatchTime that takes a text time.Parse rejects for an absent
\* variable: the zero time and no error.
GetLastDispatchTimeDropsParseError(value, getVarErr) ==
    IF getVarErr THEN [t |-> ZeroTime, err |-> TRUE]
    ELSE IF value = EmptyText THEN [t |-> ZeroTime, err |-> FALSE]
    ELSE [t |-> ParseRFC3339(value).t, err |-> FALSE]

\* StateManager.GetLastDispatchTime, given what Client.GetVariable returned.
GetLastDispatchTime(value, getVarErr) ==
    IF getVarErr THEN [t |-> ZeroTime, err |-> TRUE]
    ELSE IF value = EmptyText THEN [t |-> ZeroTime, err |-> FALSE]
    ELSE ParseRFC3339(value)

\* Client.SetVariable: update, then create if the update failed; an error
\* only when both failed.
SetVariableErr(updateOK, createOK) == ~updateOK /\ ~createOK

\* What a SetVariable call leaves in the variable: the value when the call
\* returned nil; when it returned an error, the old text, or the value if a
\* request landed on the platform and only its response failed.
SetVariableEffect(old, value, setErr, landed) ==
    IF ~setErr \/ landed THEN value ELSE old

\* ------------------------------------------------- the handler's decisions

\* A faulty CanRollback: the rollback is allowed whatever the read returned.
CanRollbackAlways(err) == TRUE

\* canRollback := err == nil
CanRollback(err) == ~err

\* time.Duration(s.config.DuplicateGuardSeconds) * time.Second
GuardDuration(seconds) == seconds * TicksPerSecond

\* A faulty guard: the window is compared without the factor time.Second.
GuardInSeconds(err, last, nowT, seconds) ==
    /\ ~err
    /\ ~IsZero(last)
    /\ nowT - last < seconds

\* A faulty guard: a failed read blocks the dispatch (fail-closed).
GuardFailClosed(err, last, nowT, seconds) ==
    \/ err
    \/ /\ ~IsZero(last)
       /\ nowT - last < GuardDuration(seconds)

\* A faulty guard: it never blocks.
GuardOff(err, last, nowT, seconds) == FALSE

\* The duplicate guard: err == nil, !lastDispatch.IsZero() and
\* time.Since(lastDispatch) < guard.
DuplicateGuardBlocks(err, last, nowT, seconds) ==
    /\ ~err
    /\ ~IsZero(last)
    /\ nowT - last < GuardDuration(seconds)

\* A faulty dry-run branch: the flag is not looked at.
DryRunIgnored(d) == FALSE

\* if s.config.DryRun { ...; return }
DryRunAborts(d) == d

\* A faulty pre-save: its error is ignored.
PreSaveAlwaysDispatches(setErr) == "dispatch"

\* A faulty pre-save: on error the handler goes on to the rollback write.
PreSaveFailureRollsBack(setErr) == IF setErr THEN "rollback" ELSE "dispatch"

\* After the pre-save: return on error, else go on to DispatchWorkflow.
PreSaveNext(setErr) == IF setErr THEN "PreSaveFailed" ELSE "dispatch"

\* A handler that goes back to the pre-save when DispatchWorkflow failed.
DispatchNextRetries(dispErr, canRb) == IF dispErr THEN "presave" ELSE "Ok"

\* After DispatchWorkflow: done on success; on error roll back if canRollback.
DispatchNext(dispErr, canRb) ==
    IF ~dispErr THEN "Ok"
    ELSE IF canRb THEN "rollback" ELSE "DispatchFailed"

\* A faulty rollback: it writes now again instead of lastDispatch.
RollbackWritesNow(last, nowT) == nowT

\* The time the rollback writes: SetLastDispatchTime(ctx, annotation, lastDispatch)
RollbackValue(last, nowT) == last

\* A handler whose context is derived from the context of the reconcile loop.
HandlerCtxFromLoop(loopCancelled) == loopCancelled

\* ctx of a handler invocation is context.WithTimeout(context.Background(),
\* 30s): cancelling the context of the reconcile loop never ends it.
HandlerCtxDone(loopCancelled) == FALSE

\* A Stop that does not wait for ctx.Done().
StopReturnsAtOnce(running) == TRUE

\* Scheduler.Stop: <-ctx.Done() on the context cron.Stop returned, which is
\* done when no job of the engine is running.
StopMayReturn(running) == running = {}

\* ------------------------------------------- annotations and the scanner

\* Cron expressions found in workflow files: two that the 5-field grammar
\* accepts and one that it rejects.
StandardExprs == {"0 8 * * *", "*/5 * * * *"}
InvalidExprs == {"61 * * * *"}
Exprs == StandardExprs \cup InvalidExprs

\* Default branches a repository may have at the time of a scan.
Refs == {"main", "dev"}

\* Expressions with a time zone prefix: two whose zone time.LoadLocation
\* knows, one whose zone it does not know.
ZonedExprs == {"CRON_TZ=Asia/Tokyo 0 8 * * *", "TZ=Europe/Paris */5 * * * *"}
BadZoneExprs == {"CRON_TZ=Asis/Tokyo 0 8 * * *"}
AllExprs == Exprs \cup ZonedExprs \cup BadZoneExprs

\* An expression whose prefix names the zone Local.
LocalZoneExprs == {"TZ=Local 0 8 * * *"}

\* What the Scanner's cron.NewParser(Minute|Hour|Dom|Month|Dow) accepts.
ScannerAccepts == StandardExprs \cup ZonedExprs \cup LocalZoneExprs

\* A validator that lets every expression through.
AcceptsAll == AllExprs

\* What the parser of cron.New() accepts in AddFunc: on 5-field expressions,
\* with or without a zone prefix, it agrees with the Scanner's parser.
CronAccepts(expr) ==
    expr \in StandardExprs \cup ZonedExprs \cup LocalZoneExprs

\* s.cronParser.Parse(expr): the text of the error, "" for nil.
ParseError(expr, accepted) ==
    IF expr \in accepted THEN ""
    ELSE IF expr \in BadZoneExprs THEN "provided bad location"
    ELSE "parse error"

CronAnnotation(expr, ref) ==
    [owner |-> "o", repo |-> "r", workflowFile |-> "a.yml",
     cronExpr |-> expr, ref |-> ref]

SkippedAnnotation(owner, repo, workflowFile, expr, reason) ==
    [owner |-> owner, repo |-> repo, workflowFile |-> workflowFile,
     cronExpr |-> expr, reason |-> reason]

\* A key that tells two refs of one job apart.
KeyWithRef(a) ==
    [owner |-> a.owner, repo |-> a.repo, workflowFile |-> a.workflowFile,
     cronExpr |-> a.cronExpr, ref |-> a.ref]

\* CronAnnotation.Key: the annotation without its ref.
Key(a) ==
    [owner |-> a.owner, repo |-> a.repo, workflowFile |-> a.workflowFile,
     cronExpr |-> a.cronExpr]

\* The raw expressions ParseAnnotations finds in the workflow files.
RawFiles ==
    UNION {[1..n -> Exprs] : n \in 0..MaxScanLen}

\* A line of a workflow file, as far as the parser looks at it.  first is
\* what the line starts with: "blank" (the line is empty or only white
\* space), "space" (a space or a tab, then content), "hash" (a # in column
\* 0), "other" (any other character in column 0).  on: the trimmed line
\* starts with on:.  wd: the line contains workflow_dispatch.  expr: the
\* expression annotationRe captures, "" when the line is no annotation.
Line(first, on, wd, expr) ==
    [first |-> first, on |-> on, wd |-> wd, expr |-> expr]

\* Lines without an annotation: a blank line, the on: line, an indented
\* line, a top-level key, each with or without workflow_dispatch, and a
\* comment in column 0.
PlainLines ==
    {Line("blank", FALSE, FALSE, ""), Line("hash", FALSE, FALSE, "")}
    \cup {Line("other", on, wd, "") : on \in BOOLEAN, wd \in BOOLEAN}
    \cup {Line("space", FALSE, wd, "") : wd \in BOOLEAN}

\* # ghacron: "expr" in column 0 and indented.
AnnotationLine(expr) == Line("hash", FALSE, FALSE, expr)

IndentedAnnotationLine(expr) == Line("space", FALSE, FALSE, expr)

\* A workflow file with workflow_dispatch in its on: block and one
\* annotation line for each expression of raw.
ContentOf(raw) ==
    <<Line("other", TRUE, FALSE, ""), Line("space", FALSE, TRUE, "")>>
    \o [i \in 1..Len(raw) |-> AnnotationLine(raw[i])]

\* ParseAnnotations: the captured expressions, in the order of the lines.
ParseAnnotations(content) ==
    LET hits == SelectSeq(content, LAMBDA l : l.expr # "")
    IN [i \in 1..Len(hits) |-> hits[i].expr]

\* An on: block that a # in column 0 does not end.
LeavesOnBlockUnlessComment(line) == line.first = "other"

\* HasWorkflowDispatch: len(line) > 0 && line[0] != ' ' && line[0] != '\t'
\* && trimmed != "" ends the on: block.
LeavesOnBlock(line) == line.first \in {"hash", "other"}

RECURSIVE HasWorkflowDispatchFrom(_, _, _)
\* The loop of HasWorkflowDispatch from line i on, inOn being the flag.
HasWorkflowDispatchFrom(lines, i, inOn) ==
    IF i > Len(lines) THEN FALSE
    ELSE IF lines[i].on
    THEN IF lines[i].wd THEN TRUE
         ELSE HasWorkflowDispatchFrom(lines, i + 1, TRUE)
    ELSE IF inOn
    THEN IF LeavesOnBlock(lines[i])
         THEN HasWorkflowDispatchFrom(lines, i + 1, FALSE)
         ELSE IF lines[i].wd THEN TRUE
         ELSE HasWorkflowDispatchFrom(lines, i + 1, TRUE)
    ELSE HasWorkflowDispatchFrom(lines, i + 1, FALSE)

HasWorkflowDispatch(content) == HasWorkflowDispatchFrom(content, 1, FALSE)

\* A parseFile that does not look for workflow_dispatch.
FileAlwaysContributes(hasDispatch) == TRUE

\* parseFile: if !HasWorkflowDispatch(content) { return nil, nil }.
FileContributes(hasDispatch) == hasDispatch

NoAnnotations == [annotations |-> <<>>, skipped |-> <<>>]

\* Scanner.parseFile: expressions the validator accepts become annotations
\* with the default branch as ref, the others become skipped entries.
parseFile(repo, file, content, accepted) ==
    IF ~FileContributes(HasWorkflowDispatch(content)) THEN NoAnnotations
    ELSE LET exprs == ParseAnnotations(content)
             ok == SelectSeq(exprs, LAMBDA e : ParseError(e, accepted) = "")
             bad == SelectSeq(exprs, LAMBDA e : ParseError(e, accepted) # "")
         IN [annotations |->
                [i \in 1..Len(ok) |->
                    [owner |-> repo.owner, repo |-> repo.name,
                     workflowFile |-> file.name, cronExpr |-> ok[i],
                     ref |-> repo.defaultBranch]],
             skipped |->
                [i \in 1..Len(bad) |->
                    SkippedAnnotation(repo.owner, repo.name, file.name, bad[i],
                                      ParseError(bad[i], accepted))]]

RECURSIVE scanFilesIgnoresReadError(_, _, _, _)
\* A scanRepo loop that parses what the file holds whether or not
\* GetFileContent could read it.
scanFilesIgnoresReadError(repo, files, i, accepted) ==
    IF i > Len(files) THEN NoAnnotations
    ELSE LET rest == scanFilesIgnoresReadError(repo, files, i + 1, accepted)
             here == parseFile(repo, files[i], files[i].content, accepted)
         IN [annotations |-> here.annotations \o rest.annotations,
             skipped |-> here.skipped \o rest.skipped]

RECURSIVE scanFiles(_, _, _, _)
\* The loop of scanRepo from file i on: a file GetFileContent fails for is
\* passed over.
scanFiles(repo, files, i, accepted) ==
    IF i > Len(files) THEN NoAnnotations
    ELSE LET rest == scanFiles(repo, files, i + 1, accepted)
             here == parseFile(repo, files[i], files[i].content, accepted)
         IN IF files[i].readErr THEN rest
            ELSE [annotations |-> here.annotations \o rest.annotations,
                  skipped |-> here.skipped \o rest.skipped]

\* Scanner.scanRepo: an error when GetWorkflowFiles fails.
scanRepo(repo, accepted) ==
    IF repo.filesErr
    THEN [err |-> TRUE, annotations |-> <<>>, skipped |-> <<>>]
    ELSE LET found == scanFiles(repo, repo.files, 1, accepted)
         IN [err |-> FALSE, annotations |-> found.annotations,
             skipped |-> found.skipped]

\* A ScanAll that returns the error of scanRepo.
RepoErrorFailsScan(err) == err

\* ScanAll: the error of scanRepo is logged, the loop continues.
RepoErrorAborts(err) == FALSE

RECURSIVE scanRepos(_, _, _)
\* The loop of ScanAll from repository i on.
scanRepos(repos, i, accepted) ==
    IF i > Len(repos)
    THEN [err |-> FALSE, annotations |-> <<>>, skipped |-> <<>>]
    ELSE LET rest == scanRepos(repos, i + 1, accepted)
             here == scanRepo(repos[i], accepted)
         IN IF here.err
            THEN IF RepoErrorAborts(here.err)
                 THEN [err |-> TRUE, annotations |-> <<>>, skipped |-> <<>>]
                 ELSE rest
            ELSE [err |-> rest.err,
                  annotations |-> IF rest.err THEN <<>>
                                  ELSE here.annotations \o rest.annotations,
                  skipped |-> IF rest.err THEN <<>>
                              ELSE here.skipped \o rest.skipped]

\* Scanner.ScanAll: an error only when the repository list cannot be fetched.
ScanAll(listErr, repos, accepted) ==
    IF listErr
    THEN [err |-> TRUE, annotations |-> <<>>, skipped |-> <<>>]
    ELSE scanRepos(repos, 1, accepted)

\* The installation with one repository o/r, default branch ref, whose one
\* workflow file a.yml holds the expressions of raw.
OneRepo(raw, ref) ==
    <<[owner |-> "o", name |-> "r", defaultBranch |-> ref, filesErr |-> FALSE,
       files |-> <<[name |-> "a.yml", readErr |-> FALSE,
                    content |-> ContentOf(raw)]>>]>>

NoScan == [err |-> FALSE, annotations |-> <<>>, skipped |-> <<>>]

\* prevScan while no iteration has succeeded.
NoPrevScan == [err |-> TRUE, annotations |-> <<>>, skipped |-> <<>>]

\* A handler that looks up the annotation now registered under its key.
AnnotationOfKey(captured, reg, entries) ==
    IF Key(captured) \in DOMAIN reg THEN entries[reg[Key(captured)]]
    ELSE captured

\* The annotation the closure of createJobHandler reads: its parameter,
\* captured by value when AddJob made the handler.
HandlerAnnotation(captured, reg, entries) == captured

\* dispatchArgs[h] before h has called DispatchWorkflow.
NoArgs == [owner |-> "", repo |-> "", workflowFile |-> "", ref |-> ""]

\* s.client.DispatchWorkflow(ctx, annotation.Owner, annotation.Repo,
\* annotation.WorkflowFile, annotation.Ref): the arguments of the call.
DispatchArgs(a) ==
    [owner |-> a.owner, repo |-> a.repo, workflowFile |-> a.workflowFile,
     ref |-> a.ref]

\* No function is being called on its own; none has returned.
NoArg == [fn |-> "none"]

NoRet == [fn |-> "none"]

\* ----------------------------------------------- scheduler and reconciler

EmptyMap == [k \in {} |-> 0]

NoCall == [op |-> "none", key |-> "none", existed |-> FALSE, err |-> FALSE]

\* AddJob without the "already registered" test.
AddJobAlwaysAdds(reg, entries, id, a) ==
    IF ~CronAccepts(a.cronExpr)
    THEN [reg |-> reg, entries |-> entries, nextID |-> id, err |-> TRUE]
    ELSE [reg |-> [k \in DOMAIN reg \cup {Key(a)} |->
                      IF k = Key(a) THEN id + 1 ELSE reg[k]],
          entries |-> [e \in DOMAIN entries \cup {id + 1} |->
                          IF e = id + 1 THEN a ELSE entries[e]],
          nextID |-> id + 1,
          err |-> FALSE]

\* AddJob that records the key before the engine has accepted the
\* expression, so that a rejected expression leaves a key with no entry.
AddJobRecordsBeforeAddFunc(reg, entries, id, a) ==
    IF Key(a) \in DOMAIN reg
    THEN [reg |-> reg, entries |-> entries, nextID |-> id, err |-> FALSE]
    ELSE IF ~CronAccepts(a.cronExpr)
    THEN [reg |-> [k \in DOMAIN reg \cup {Key(a)} |->
                      IF k = Key(a) THEN 0 ELSE reg[k]],
          entries |-> entries, nextID |-> id, err |-> TRUE]
    ELSE [reg |-> [k \in DOMAIN reg \cup {Key(a)} |->
                      IF k = Key(a) THEN id + 1 ELSE reg[k]],
          entries |-> [e \in DOMAIN entries \cup {id + 1} |->
                          IF e = id + 1 THEN a ELSE entries[e]],
          nextID |-> id + 1,
          err |-> FALSE]

\* Scheduler.AddJob on registry reg, cron entries and the engine's nextID.
AddJob(reg, entries, id, a) ==
    IF Key(a) \in DOMAIN reg
    THEN [reg |-> reg, entries |-> entries, nextID |-> id, err |-> FALSE]
    ELSE IF ~CronAccepts(a.cronExpr)
    THEN [reg |-> reg, entries |-> entries, nextID |-> id, err |-> TRUE]
    ELSE [reg |-> [k \in DOMAIN reg \cup {Key(a)} |->
                      IF k = Key(a) THEN id + 1 ELSE reg[k]],
          entries |-> [e \in DOMAIN entries \cup {id + 1} |->
                          IF e = id + 1 THEN a ELSE entries[e]],
          nextID |-> id + 1,
          err |-> FALSE]

\* RemoveJob that deletes the registry key and leaves the cron entry.
RemoveJobKeepsEntry(reg, entries, key) ==
    [reg |-> [k \in DOMAIN reg \ {key} |-> reg[k]], entries |-> entries]

\* RemoveJob that removes the cron entry and keeps the registry key.
RemoveJobKeepsKey(reg, entries, key) ==
    IF key \in DOMAIN reg
    THEN [reg |-> reg,
          entries |-> [e \in DOMAIN entries \ {reg[key]} |-> entries[e]]]
    ELSE [reg |-> reg, entries |-> entries]

\* Scheduler.RemoveJob.
RemoveJob(reg, entries, key) ==
    IF key \in DOMAIN reg
    THEN [reg |-> [k \in DOMAIN reg \ {key} |-> reg[k]],
          entries |-> [e \in DOMAIN entries \ {reg[key]} |-> entries[e]]]
    ELSE [reg |-> reg, entries |-> entries]

\* Scheduler.GetRegisteredKeys: the keys in map order, here as a set.
GetRegisteredKeys(reg) == DOMAIN reg

\* Reconcile step 2: desiredMap[a.Key()] = a, the last annotation winning.
DesiredMap(annotations) ==
    [k \in {Key(annotations[i]) : i \in DOMAIN annotations} |->
        annotations[CHOOSE i \in DOMAIN annotations :
                       /\ Key(annotations[i]) = k
                       /\ \A j \in DOMAIN annotations :
                             Key(annotations[j]) = k => j <= i]]

\* A diff that adds nothing.
ToAddNothing(desired, actual) == {}

\* A diff that adds every desired key again.
ToAddEverything(desired, actual) == DOMAIN desired

\* Reconcile step 4: keys of the desired annotations not registered.
ToAdd(desired, actual) == {k \in DOMAIN desired : k \notin actual}

\* A diff that removes nothing.
ToRemoveNothing(desired, actual) == {}

\* A diff that removes every registered key, desired or not.
ToRemoveEverything(desired, actual) == actual

\* Reconcile step 4: registered keys not desired.
ToRemove(desired, actual) == {k \in actual : k \notin DOMAIN desired}

\* Reconcile step 1: a ScanAll error is returned at once.
ScanErrorReturns(scanErr) == scanErr

\* A Reconcile that returns the first AddJob error.
AddErrorReturns(addErr) == addErr

\* Reconcile step 5: an AddJob error is logged and the loop continues.
AddErrorStops(addErr) == FALSE

\* A publication that appends to the list already held.
PublishAppends(held, skipped) == held \o skipped

\* Reconcile step 7: the skipped list of the iteration replaces the one held.
Publish(held, skipped) == skipped

\* ------------------------------------------------------------------- init

HandlerInit ==
    /\ clock = 0
    /\ store \in {EmptyText, BadText, Text(ZeroSec)}
                 \cup {Text(s) : s \in 0..MaxStoredSec}
    /\ guardSeconds \in 0..MaxGuardSeconds
    /\ dryRun \in BOOLEAN
    /\ pc = [h \in Handlers |-> "idle"]
    /\ startT = [h \in Handlers |-> 0]
    /\ lastDispatch = [h \in Handlers |-> ZeroTime]
    /\ getErr = [h \in Handlers |-> FALSE]
    /\ guardT = [h \in Handlers |-> 0]
    /\ now = [h \in Handlers |-> 0]
    /\ setVarArgs = [h \in Handlers |-> <<>>]
    /\ preSave = [h \in Handlers |-> "none"]
    /\ dispatchCalls = [h \in Handlers |-> 0]
    /\ outcome = [h \in Handlers |-> "none"]
    /\ prior = [h \in Handlers |-> {}]
    /\ platformRuns = 0
    /\ readValue = [h \in Handlers |-> NotRead]
    /\ sawCancel = [h \in Handlers |-> FALSE]

\* scheduler.New: an empty registry and a started cron engine; main has not
\* yet started RunReconcileLoop's first iteration.
SchedInit ==
    /\ registeredJobs = EmptyMap
    /\ cronEntries = EmptyMap
    /\ nextID = 0
    /\ loopPc = "start"
    /\ tickPending = FALSE
    /\ cancelled = FALSE
    /\ iter = 0
    /\ recPc = "idle"
    /\ scanResult = NoScan
    /\ desiredMap = EmptyMap
    /\ toAdd = {}
    /\ toRemove = {}
    /\ addCalls = 0
    /\ removeCalls = 0
    /\ addFailed = {}
    /\ recReturn = "none"
    /\ regBefore = EmptyMap
    /\ entriesBefore = EmptyMap
    /\ prevScan = NoPrevScan
    /\ published = <<>>
    /\ lastReconcile = 0
    /\ lastCall = NoCall
    /\ scanFault = "none"

\* c.Start() in scheduler.New; main has called neither cancel() nor Stop().
StopInit ==
    /\ cronRunning = TRUE
    /\ stopPc = "none"
    /\ pcAtCancel = [h \in Handlers |-> "none"]
    /\ pcAtStop = [h \in Handlers |-> "none"]

\* The handlers are closures over one annotation; none has called
\* DispatchWorkflow.
FireInit ==
    /\ annotation = [h \in Handlers |-> CronAnnotation("0 8 * * *", "main")]
    /\ invEntry = [h \in Handlers |-> 0]
    /\ dispatchArgs = [h \in Handlers |-> NoArgs]

\* No function is called on its own.
CallInit ==
    /\ arg = NoArg
    /\ ret = NoRet

Init == HandlerInit /\ SchedInit /\ StopInit /\ FireInit /\ CallInit

\* ---------------------------------------------------------------- actions

\* Time passes.
Tick ==
    /\ clock < MaxClock
    /\ clock' = clock + 1
    /\ UNCHANGED <<store, guardSeconds, dryRun, pc, startT, lastDispatch,
                   getErr, guardT, now, setVarArgs, preSave, dispatchCalls,
                   outcome, prior, platformRuns>>
    /\ UNCHANGED <<readValue, sawCancel, schedVars, stopVars>>
    /\ UNCHANGED <<fireVars, callVars, faultVars>>

\* The running cron engine calls the closure createJobHandler returned.
\* Invocations are numbered in the order they start.
HandlerStart(h) ==
    /\ cronRunning
    /\ pc[h] = "idle"
    /\ \A g \in Handlers : g < h => pc[g] # "idle"
    /\ pc' = [pc EXCEPT ![h] = "get"]
    /\ startT' = [startT EXCEPT ![h] = clock]
    /\ prior' = [prior EXCEPT ![h] = {g \in Handlers : dispatchCalls[g] > 0}]
    /\ UNCHANGED <<clock, store, guardSeconds, dryRun, lastDispatch, getErr,
                   guardT, now, setVarArgs, preSave, dispatchCalls, outcome,
                   platformRuns>>
    /\ UNCHANGED <<readValue, sawCancel, schedVars, stopVars>>
    /\ UNCHANGED <<fireVars, callVars, faultVars>>

\* lastDispatch, err := stateManager.GetLastDispatchTime(ctx, annotation)
HandlerGet(h) ==
    /\ pc[h] = "get"
    /\ \E getVarErr \in BOOLEAN :
          LET got == GetVariable(store, getVarErr)
              r == GetLastDispatchTime(got.value, got.err) IN
          /\ HandlerCtxDone(cancelled) => getVarErr
          /\ readValue' = [readValue EXCEPT ![h] = ReadKind(got)]
          /\ lastDispatch' = [lastDispatch EXCEPT ![h] = r.t]
          /\ getErr' = [getErr EXCEPT ![h] = r.err]
    /\ pc' = [pc EXCEPT ![h] = "guard"]
    /\ UNCHANGED <<clock, store, guardSeconds, dryRun, startT, guardT, now,
                   setVarArgs, preSave, dispatchCalls, outcome, prior,
                   platformRuns>>
    /\ sawCancel' = [sawCancel EXCEPT ![h] = @ \/ HandlerCtxDone(cancelled)]
    /\ UNCHANGED <<schedVars, stopVars>>
    /\ UNCHANGED <<fireVars, callVars, faultVars>>

\* The duplicate guard, the dry-run branch and now := time.Now().
HandlerGuard(h) ==
    /\ pc[h] = "guard"
    /\ guardT' = [guardT EXCEPT ![h] = clock]
    /\ IF DuplicateGuardBlocks(getErr[h], lastDispatch[h], clock, guardSeconds)
       THEN /\ pc' = [pc EXCEPT ![h] = "Guarded"]
            /\ UNCHANGED now
       ELSE IF DryRunAborts(dryRun)
       THEN /\ pc' = [pc EXCEPT ![h] = "DryRun"]
            /\ UNCHANGED now
       ELSE /\ pc' = [pc EXCEPT ![h] = "presave"]
            /\ now' = [now EXCEPT ![h] = clock]
    /\ UNCHANGED <<clock, store, guardSeconds, dryRun, startT, lastDispatch,
                   getErr, setVarArgs, preSave, dispatchCalls, outcome, prior,
                   platformRuns>>
    /\ UNCHANGED <<readValue, sawCancel, schedVars, stopVars>>
    /\ UNCHANGED <<fireVars, callVars, faultVars>>

\* stateManager.SetLastDispatchTime(ctx, annotation, now)
HandlerPreSave(h) ==
    /\ pc[h] = "presave"
    /\ setVarArgs' = [setVarArgs EXCEPT ![h] = Append(@, FormatRFC3339(now[h]))]
    /\ \E updateOK \in BOOLEAN, createOK \in BOOLEAN, landed \in BOOLEAN :
          LET setErr == SetVariableErr(updateOK, createOK) IN
          /\ HandlerCtxDone(cancelled) => setErr
          /\ store' = SetVariableEffect(store, FormatRFC3339(now[h]), setErr, landed)
          /\ preSave' = [preSave EXCEPT ![h] = IF setErr THEN "failed" ELSE "ok"]
          /\ pc' = [pc EXCEPT ![h] = PreSaveNext(setErr)]
    /\ UNCHANGED <<clock, guardSeconds, dryRun, startT, lastDispatch, getErr,
                   guardT, now, dispatchCalls, outcome, prior, platformRuns>>
    /\ sawCancel' = [sawCancel EXCEPT ![h] = @ \/ HandlerCtxDone(cancelled)]
    /\ UNCHANGED <<readValue, schedVars, stopVars>>
    /\ UNCHANGED <<fireVars, callVars, faultVars>>

\* s.client.DispatchWorkflow(ctx, owner, repo, workflowFile, ref).  The call
\* succeeds, fails without effect, or takes effect on the platform while its
\* response is lost, which the handler sees as an error.
HandlerDispatch(h) ==
    /\ pc[h] = "dispatch"
    /\ dispatchCalls' = [dispatchCalls EXCEPT ![h] = @ + 1]
    /\ \E res \in {"ok", "failed", "lost"} :
          /\ HandlerCtxDone(cancelled) => res # "ok"
          /\ outcome' = [outcome EXCEPT ![h] = res]
          /\ platformRuns' = IF res = "failed" THEN platformRuns
                             ELSE platformRuns + 1
          /\ pc' = [pc EXCEPT ![h] = DispatchNext(res # "ok", CanRollback(getErr[h]))]
    /\ UNCHANGED <<clock, store, guardSeconds, dryRun, startT, lastDispatch,
                   getErr, guardT, now, setVarArgs, preSave, prior>>
    /\ sawCancel' = [sawCancel EXCEPT ![h] = @ \/ HandlerCtxDone(cancelled)]
    /\ UNCHANGED <<readValue, schedVars, stopVars>>
    /\ dispatchArgs' =
          [dispatchArgs EXCEPT
              ![h] = DispatchArgs(HandlerAnnotation(annotation[h],
                                                    registeredJobs,
                                                    cronEntries))]
    /\ UNCHANGED <<annotation, invEntry, callVars, faultVars>>

\* stateManager.SetLastDispatchTime(ctx, annotation, lastDispatch); its error
\* is logged and swallowed.
HandlerRollback(h) ==
    /\ pc[h] = "rollback"
    /\ LET value == FormatRFC3339(RollbackValue(lastDispatch[h], now[h])) IN
       /\ setVarArgs' = [setVarArgs EXCEPT ![h] = Append(@, value)]
       /\ \E updateOK \in BOOLEAN, createOK \in BOOLEAN, landed \in BOOLEAN :
             LET setErr == SetVariableErr(updateOK, createOK) IN
             /\ HandlerCtxDone(cancelled) => setErr
             /\ store' = SetVariableEffect(store, value, setErr, landed)
             /\ pc' = [pc EXCEPT ![h] = IF setErr THEN "RollbackFailed"
                                        ELSE "RolledBack"]
    /\ UNCHANGED <<clock, guardSeconds, dryRun, startT, lastDispatch, getErr,
                   guardT, now, preSave, dispatchCalls, outcome, prior,
                   platformRuns>>
    /\ sawCancel' = [sawCancel EXCEPT ![h] = @ \/ HandlerCtxDone(cancelled)]
    /\ UNCHANGED <<readValue, schedVars, stopVars>>
    /\ UNCHANGED <<fireVars, callVars, faultVars>>

Next ==
    \/ Tick
    \/ \E h \in Handlers : HandlerStart(h)
    \/ \E h \in Handlers : HandlerGet(h)
    \/ \E h \in Handlers : HandlerGuard(h)
    \/ \E h \in Handlers : HandlerPreSave(h)
    \/ \E h \in Handlers : HandlerDispatch(h)
    \/ \E h \in Handlers : HandlerRollback(h)

Spec == Init /\ [][Next]_vars

\* ------------------------------------------------- the reconcile loop

regVars == <<registeredJobs, cronEntries, nextID>>

loopVars == <<loopPc, tickPending, cancelled>>

iterVars == <<iter, recPc, scanResult, desiredMap, toAdd, toRemove, addCalls,
              removeCalls, addFailed, recReturn, regBefore, entriesBefore,
              prevScan>>

\* No handler runs: the variables of the dispatch handler stay as they are.
HandlerQuiet ==
    /\ HandlerInit
    /\ store = EmptyText
    /\ guardSeconds = 0
    /\ ~dryRun

InitSched == HandlerQuiet /\ SchedInit /\ StopInit /\ FireInit /\ CallInit

\* runReconcile is entered: a new Reconcile iteration starts.
BeginIteration ==
    /\ iter' = iter + 1
    /\ recPc' = "scan"
    /\ scanResult' = NoScan
    /\ desiredMap' = EmptyMap
    /\ toAdd' = {}
    /\ toRemove' = {}
    /\ addCalls' = 0
    /\ removeCalls' = 0
    /\ addFailed' = {}
    /\ recReturn' = "none"
    /\ regBefore' = registeredJobs
    /\ entriesBefore' = cronEntries
    /\ prevScan' = IF recReturn = "nil" THEN scanResult ELSE prevScan

\* RunReconcileLoop: s.runReconcile(ctx) before the ticker exists.
LoopRunImmediately ==
    /\ loopPc = "start"
    /\ loopPc' = "first"
    /\ BeginIteration
    /\ UNCHANGED <<regVars, tickPending, cancelled, published, lastReconcile,
                   lastCall, handlerVars>>
    /\ UNCHANGED stopVars
    /\ UNCHANGED <<fireVars, callVars, faultVars>>

\* The ticker, created after the first iteration, puts a tick in ticker.C;
\* a tick that finds the channel full is dropped.
TickerFire ==
    /\ loopPc \in {"select", "iterating"}
    /\ ~tickPending
    /\ tickPending' = TRUE
    /\ UNCHANGED <<regVars, loopPc, cancelled, iterVars, published,
                   lastReconcile, lastCall, handlerVars>>
    /\ UNCHANGED stopVars
    /\ UNCHANGED <<fireVars, callVars, faultVars>>

\* main cancels the context it gave to RunReconcileLoop.
Cancel ==
    /\ ~cancelled
    /\ cancelled' = TRUE
    /\ UNCHANGED <<regVars, loopPc, tickPending, iterVars, published,
                   lastReconcile, lastCall, handlerVars>>
    /\ pcAtCancel' = pc
    /\ UNCHANGED <<cronRunning, stopPc, pcAtStop>>
    /\ UNCHANGED <<fireVars, callVars, faultVars>>

\* select: case <-ticker.C.  The case can be chosen whenever a tick is
\* pending, also when ctx.Done() is ready too.
LoopTick ==
    /\ loopPc = "select"
    /\ tickPending
    /\ iter < MaxIterations
    /\ tickPending' = FALSE
    /\ loopPc' = "iterating"
    /\ BeginIteration
    /\ UNCHANGED <<regVars, cancelled, published, lastReconcile, lastCall,
                   handlerVars>>
    /\ UNCHANGED stopVars
    /\ UNCHANGED <<fireVars, callVars, faultVars>>

\* select: case <-ctx.Done().
LoopDone ==
    /\ loopPc = "select"
    /\ cancelled
    /\ loopPc' = "returned"
    /\ UNCHANGED <<regVars, tickPending, cancelled, iterVars, published,
                   lastReconcile, lastCall, handlerVars>>
    /\ UNCHANGED stopVars
    /\ UNCHANGED <<fireVars, callVars, faultVars>>

\* Reconcile steps 1 to 4: ScanAll, desiredMap, GetRegisteredKeys, the diff.
\* The validator of the Scanner accepts the expressions in accepted.
ReconcileScan(accepted) ==
    /\ recPc = "scan"
    /\ \E listErr \in BOOLEAN, raw \in RawFiles, ref \in Refs :
          LET result == ScanAll(listErr, OneRepo(raw, ref), accepted)
              desired == DesiredMap(result.annotations)
              actualKeys == GetRegisteredKeys(registeredJobs)
          IN /\ scanResult' = result
             /\ IF ScanErrorReturns(result.err)
                THEN /\ recReturn' = "err"
                     /\ recPc' = "return"
                     /\ UNCHANGED <<desiredMap, toAdd, toRemove>>
                ELSE /\ desiredMap' = desired
                     /\ toAdd' = ToAdd(desired, actualKeys)
                     /\ toRemove' = ToRemove(desired, actualKeys)
                     /\ recPc' = "apply"
                     /\ UNCHANGED recReturn
    /\ UNCHANGED <<regVars, loopVars, iter, addCalls, removeCalls, addFailed,
                   regBefore, entriesBefore, prevScan, published,
                   lastReconcile, lastCall, handlerVars>>
    /\ UNCHANGED stopVars
    /\ UNCHANGED <<fireVars, callVars, faultVars>>

\* Reconcile step 5, first loop: r.scheduler.AddJob(annotation), in the
\* order of a map iteration.
ReconcileAdd ==
    /\ recPc = "apply"
    /\ \E k \in toAdd :
          LET r == AddJob(registeredJobs, cronEntries, nextID, desiredMap[k])
          IN /\ registeredJobs' = r.reg
             /\ cronEntries' = r.entries
             /\ nextID' = r.nextID
             /\ addCalls' = addCalls + 1
             /\ addFailed' = IF r.err THEN addFailed \cup {k} ELSE addFailed
             /\ lastCall' = [op |-> "AddJob", key |-> k,
                             existed |-> k \in DOMAIN registeredJobs,
                             err |-> r.err]
             /\ IF AddErrorStops(r.err)
                THEN /\ recReturn' = "err"
                     /\ recPc' = "return"
                     /\ UNCHANGED toAdd
                ELSE /\ toAdd' = toAdd \ {k}
                     /\ UNCHANGED <<recReturn, recPc>>
    /\ UNCHANGED <<loopVars, iter, scanResult, desiredMap, toRemove,
                   removeCalls, regBefore, entriesBefore, prevScan, published,
                   lastReconcile, handlerVars>>
    /\ UNCHANGED stopVars
    /\ UNCHANGED <<fireVars, callVars, faultVars>>

\* Reconcile step 5, second loop: r.scheduler.RemoveJob(key).
ReconcileRemove ==
    /\ recPc = "apply"
    /\ toAdd = {}
    /\ \E k \in toRemove :
          LET r == RemoveJob(registeredJobs, cronEntries, k)
          IN /\ registeredJobs' = r.reg
             /\ cronEntries' = r.entries
             /\ removeCalls' = removeCalls + 1
             /\ lastCall' = [op |-> "RemoveJob", key |-> k,
                             existed |-> k \in DOMAIN registeredJobs,
                             err |-> FALSE]
             /\ toRemove' = toRemove \ {k}
    /\ UNCHANGED <<nextID, loopVars, iter, recPc, scanResult, desiredMap,
                   toAdd, addCalls, addFailed, recReturn, regBefore,
                   entriesBefore, prevScan, published, lastReconcile,
                   handlerVars>>
    /\ UNCHANGED stopVars
    /\ UNCHANGED <<fireVars, callVars, faultVars>>

\* Reconcile steps 6 and 7: the skipped list is published and nil returned.
ReconcileReturn ==
    /\ recPc = "apply"
    /\ toAdd = {}
    /\ toRemove = {}
    /\ published' = Publish(published, scanResult.skipped)
    /\ recReturn' = "nil"
    /\ recPc' = "return"
    /\ UNCHANGED <<regVars, loopVars, iter, scanResult, desiredMap, toAdd,
                   toRemove, addCalls, removeCalls, addFailed, regBefore,
                   entriesBefore, prevScan, lastReconcile, lastCall,
                   handlerVars>>
    /\ UNCHANGED stopVars
    /\ UNCHANGED <<fireVars, callVars, faultVars>>

\* A runReconcile that stamps lastReconcile only when Reconcile returned nil.
LastReconcileOnSuccess(last, it, returned) ==
    IF returned = "nil" THEN it ELSE last

\* runReconcile: s.lastReconcile = time.Now() after the if that logs the
\* error of Reconcile, whatever Reconcile returned.
LastReconcileAfter(last, it, returned) == it

\* runReconcile after Reconcile returned: s.lastReconcile = time.Now().
RunReconcileFinish ==
    /\ recPc = "return"
    /\ recPc' = "idle"
    /\ lastReconcile' = LastReconcileAfter(lastReconcile, iter, recReturn)
    /\ loopPc' = "select"
    /\ UNCHANGED <<regVars, tickPending, cancelled, iter, scanResult,
                   desiredMap, toAdd, toRemove, addCalls, removeCalls,
                   addFailed, recReturn, regBefore, entriesBefore, prevScan,
                   published, lastCall, handlerVars>>
    /\ UNCHANGED stopVars
    /\ UNCHANGED <<fireVars, callVars, faultVars>>

LoopNext ==
    \/ LoopRunImmediately
    \/ TickerFire
    \/ Cancel
    \/ LoopTick
    \/ LoopDone
    \/ ReconcileAdd
    \/ ReconcileRemove
    \/ ReconcileReturn
    \/ RunReconcileFinish

\* The program: the Reconciler is fed by the Scanner.
NextSched ==
    \/ ReconcileScan(ScannerAccepts)
    \/ LoopNext

SpecSched == InitSched /\ [][NextSched]_vars

\* The Reconciler fed with annotations that no validator has filtered.
NextUntrusted ==
    \/ ReconcileScan(AcceptsAll)
    \/ LoopNext

SpecUntrusted == InitSched /\ [][NextUntrusted]_vars

\* -------------------------------------------------------------- shutdown

\* Handler invocations that have started and not returned.
Running == {h \in Handlers : pc[h] \notin {"idle"} \cup Terminal}

\* Scheduler.Stop, first statement: ctx := s.cron.Stop().  main calls it
\* after cancel(); the engine starts no job from then on.
StopCall ==
    /\ cancelled
    /\ stopPc = "none"
    /\ stopPc' = "waiting"
    /\ cronRunning' = FALSE
    /\ pcAtStop' = pc
    /\ UNCHANGED <<handlerVars, schedVars, pcAtCancel>>
    /\ UNCHANGED <<fireVars, callVars, faultVars>>

\* Scheduler.Stop, second statement: <-ctx.Done(), then Stop returns.
StopReturn ==
    /\ stopPc = "waiting"
    /\ StopMayReturn(Running)
    /\ stopPc' = "returned"
    /\ UNCHANGED <<handlerVars, schedVars, cronRunning, pcAtCancel, pcAtStop>>
    /\ UNCHANGED <<fireVars, callVars, faultVars>>

\* The cron engine runs handlers while main shuts the service down.
InitShutdown ==
    /\ HandlerInit
    /\ store = EmptyText
    /\ ~dryRun
    /\ SchedInit
    /\ StopInit
    /\ FireInit
    /\ CallInit

NextShutdown ==
    \/ \E h \in Handlers : HandlerStart(h)
    \/ \E h \in Handlers : HandlerGet(h)
    \/ \E h \in Handlers : HandlerGuard(h)
    \/ \E h \in Handlers : HandlerPreSave(h)
    \/ \E h \in Handlers : HandlerDispatch(h)
    \/ \E h \in Handlers : HandlerRollback(h)
    \/ Cancel
    \/ StopCall
    \/ StopReturn

SpecShutdown == InitShutdown /\ [][NextShutdown]_vars

\* ------------------------------------------- direct calls of the registry

\* Some caller calls Scheduler.AddJob(annotation).
AddJobCall(exprs) ==
    /\ nextID < MaxEntryID
    /\ \E expr \in exprs, ref \in Refs :
          LET a == CronAnnotation(expr, ref)
              r == AddJob(registeredJobs, cronEntries, nextID, a)
          IN /\ registeredJobs' = r.reg
             /\ cronEntries' = r.entries
             /\ nextID' = r.nextID
             /\ lastCall' = [op |-> "AddJob", key |-> Key(a),
                             existed |-> Key(a) \in DOMAIN registeredJobs,
                             err |-> r.err]
    /\ UNCHANGED <<loopVars, iterVars, published, lastReconcile, handlerVars>>
    /\ UNCHANGED stopVars
    /\ UNCHANGED <<fireVars, callVars, faultVars>>

\* Some caller calls Scheduler.RemoveJob(key).
RemoveJobCall(exprs) ==
    /\ \E expr \in exprs :
          LET k == Key(CronAnnotation(expr, "main"))
              r == RemoveJob(registeredJobs, cronEntries, k)
          IN /\ registeredJobs' = r.reg
             /\ cronEntries' = r.entries
             /\ lastCall' = [op |-> "RemoveJob", key |-> k,
                             existed |-> k \in DOMAIN registeredJobs,
                             err |-> FALSE]
    /\ UNCHANGED <<nextID, loopVars, iterVars, published, lastReconcile,
                   handlerVars>>
    /\ UNCHANGED stopVars
    /\ UNCHANGED <<fireVars, callVars, faultVars>>

CallAddJob == AddJobCall(Exprs)

CallRemoveJob == RemoveJobCall(Exprs)

NextJobs ==
    \/ CallAddJob
    \/ CallRemoveJob

SpecJobs == InitSched /\ [][NextJobs]_vars

\* ------------------------------------------- jobs fired while they change

\* An engine that goes on firing the entries it holds after Stop.
EngineFiresStopped(running, entries, e) == e \in DOMAIN entries

\* The engine's run loop starts the job of an entry it holds, and only
\* between Start and Stop; an entry added after Stop is kept and never run.
EngineFires(running, entries, e) == running /\ e \in DOMAIN entries

\* The cron engine starts the handler of its live entry e as invocation h:
\* the closure AddJob made for the entry runs with the annotation it
\* captured.
FireEntry(h, e) ==
    /\ EngineFires(cronRunning, cronEntries, e)
    /\ pc[h] = "idle"
    /\ \A g \in Handlers : g < h => pc[g] # "idle"
    /\ pc' = [pc EXCEPT ![h] = "get"]
    /\ startT' = [startT EXCEPT ![h] = clock]
    /\ prior' = [prior EXCEPT ![h] = {g \in Handlers : dispatchCalls[g] > 0}]
    /\ annotation' = [annotation EXCEPT ![h] = cronEntries[e]]
    /\ invEntry' = [invEntry EXCEPT ![h] = e]
    /\ UNCHANGED <<clock, store, guardSeconds, dryRun, lastDispatch, getErr,
                   guardT, now, setVarArgs, preSave, dispatchCalls, outcome,
                   platformRuns>>
    /\ UNCHANGED <<readValue, sawCancel, schedVars, stopVars, dispatchArgs,
                   callVars, faultVars>>

\* One job key is added, with either ref, and removed while the engine
\* fires its entries and the handlers run.
NextFire ==
    \/ AddJobCall({"0 8 * * *"})
    \/ RemoveJobCall({"0 8 * * *"})
    \/ \E h \in Handlers : \E e \in 1..MaxEntryID : FireEntry(h, e)
    \/ \E h \in Handlers : HandlerGet(h)
    \/ \E h \in Handlers : HandlerGuard(h)
    \/ \E h \in Handlers : HandlerPreSave(h)
    \/ \E h \in Handlers : HandlerDispatch(h)
    \/ \E h \in Handlers : HandlerRollback(h)

SpecFire == InitSched /\ [][NextFire]_vars

\* ------------------------------------------- functions called on their own

\* ------------------------------------- the reconcile loop with failing reads
\* The installation's one repository with two workflow files, a.yml and
\* b.yml: GetWorkflowFiles fails for the repository (fault "files"),
\* GetFileContent fails for a.yml (fault "read"), or nothing fails.
ScanFaults == {"none", "files", "read"}

FaultContents == {<<>>, <<"0 8 * * *">>}

TwoFileRepo(rawA, rawB, fault) ==
    <<[owner |-> "o", name |-> "r", defaultBranch |-> "main",
       filesErr |-> (fault = "files"),
       files |-> <<[name |-> "a.yml", readErr |-> (fault = "read"),
                    content |-> ContentOf(rawA)],
                   [name |-> "b.yml", readErr |-> FALSE,
                    content |-> ContentOf(rawB)]>>]>>

\* Reconcile steps 1 to 4 on one of the given scans, each a list of
\* repositories with the fault their reading meets; the list of repositories
\* itself is fetched without error.
ReconcileScanOf(scans) ==
    /\ recPc = "scan"
    /\ \E scan \in scans :
          LET result == ScanAll(FALSE, scan.repos, ScannerAccepts)
              desired == DesiredMap(result.annotations)
              actualKeys == GetRegisteredKeys(registeredJobs)
          IN /\ scanResult' = result
             /\ scanFault' = scan.fault
             /\ IF ScanErrorReturns(result.err)
                THEN /\ recReturn' = "err"
                     /\ recPc' = "return"
                     /\ UNCHANGED <<desiredMap, toAdd, toRemove>>
                ELSE /\ desiredMap' = desired
                     /\ toAdd' = ToAdd(desired, actualKeys)
                     /\ toRemove' = ToRemove(desired, actualKeys)
                     /\ recPc' = "apply"
                     /\ UNCHANGED recReturn
    /\ UNCHANGED <<regVars, loopVars, iter, addCalls, removeCalls, addFailed,
                   regBefore, entriesBefore, prevScan, published,
                   lastReconcile, lastCall, handlerVars>>
    /\ UNCHANGED stopVars
    /\ UNCHANGED <<fireVars, callVars>>

ReconcileScanFaulty ==
    ReconcileScanOf({[repos |-> TwoFileRepo(rawA, rawB, fault),
                      fault |-> fault] :
                        rawA \in FaultContents, rawB \in FaultContents,
                        fault \in ScanFaults})

NextFaults ==
    \/ ReconcileScanFaulty
    \/ LoopNext

SpecFaults == InitSched /\ [][NextFaults]_vars

\* ----------------------------- the reconcile loop while the engine fires
\* One workflow file that holds the annotation or not, in a repository whose
\* default branch is one of Refs at each scan.
ReconcileScanRefs ==
    ReconcileScanOf({[repos |-> OneRepo(raw, ref), fault |-> "none"] :
                        raw \in FaultContents, ref \in Refs})

\* The loop reconciles while the engine fires the registered entry and the
\* invocation runs.
NextRefs ==
    \/ ReconcileScanRefs
    \/ LoopNext
    \/ \E e \in 1..MaxEntryID : FireEntry(1, e)
    \/ HandlerGet(1)
    \/ HandlerGuard(1)
    \/ HandlerPreSave(1)
    \/ HandlerDispatch(1)
    \/ HandlerRollback(1)

SpecRefs == InitSched /\ [][NextRefs]_vars

\* main shuts down: cancel(), then sched.Stop(), while the loop goroutine
\* goes on until it sees the cancelled context.
NextStopLoop ==
    \/ NextRefs
    \/ StopCall
    \/ StopReturn

SpecStopLoop == InitSched /\ [][NextStopLoop]_vars

\* The content of the workflow files of a scan: workflow_dispatch, an
\* expression the Scanner accepts and one it rejects.
ScanContents == {ContentOf(<<"0 8 * * *", "61 * * * *">>)}

\* What GetFileContent gives for a workflow file: an error, or a content.
FileReads ==
    {[readErr |-> FALSE, content |-> c] : c \in ScanContents}
    \cup {[readErr |-> TRUE, content |-> <<>>]}

\* The workflow files of a repository, named by their place in the list.
FileLists ==
    UNION {{[i \in 1..n |->
                [name |-> <<"a.yml", "b.yml", "c.yml", "d.yml">>[i],
                 readErr |-> fs[i].readErr, content |-> fs[i].content]] :
               fs \in [1..n -> FileReads]} : n \in 0..MaxFiles}

\* What GetWorkflowFiles gives for a repository: an error, or its files.
RepoReads ==
    {[filesErr |-> FALSE, files |-> fs] : fs \in FileLists}
    \cup {[filesErr |-> TRUE, files |-> <<>>]}

\* The repositories of the installation, named by their place in the list.
RepoLists ==
    UNION {{[i \in 1..n |->
                [owner |-> "o", name |-> <<"r", "s", "t", "u">>[i],
                 defaultBranch |-> "main", filesErr |-> rs[i].filesErr,
                 files |-> rs[i].files]] :
               rs \in [1..n -> RepoReads]} : n \in 0..MaxRepos}

\* GetInstallationRepos fails, or gives a list of repositories.
ScanAllInputs ==
    {[fn |-> "ScanAll", listErr |-> FALSE, repos |-> rs] : rs \in RepoLists}
    \cup {[fn |-> "ScanAll", listErr |-> TRUE, repos |-> <<>>]}

CallScanAll ==
    /\ arg.fn = "ScanAll"
    /\ ret.fn = "none"
    /\ ret' = [fn |-> "ScanAll",
               value |-> ScanAll(arg.listErr, arg.repos, ScannerAccepts)]
    /\ UNCHANGED <<handlerVars, schedVars, stopVars, fireVars, arg, faultVars>>

\* Lines of the files given to parseFile: the on: line with and without
\* workflow_dispatch, an indented workflow_dispatch, and annotation lines.
FileLines ==
    {Line("other", TRUE, wd, "") : wd \in BOOLEAN}
    \cup {Line("space", FALSE, TRUE, "")}
    \cup {AnnotationLine(e) :
             e \in {"0 8 * * *", "61 * * * *"} \cup ZonedExprs \cup BadZoneExprs}
    \cup {IndentedAnnotationLine("*/5 * * * *")}

ContentsOver(lines) == UNION {[1..n -> lines] : n \in 0..MaxLines}

ParseFileInputs ==
    {[fn |-> "parseFile",
      repo |-> [owner |-> "o", name |-> "r", defaultBranch |-> b],
      file |-> [name |-> "a.yml"], content |-> c] :
        b \in Refs, c \in ContentsOver(FileLines)}

CallParseFile ==
    /\ arg.fn = "parseFile"
    /\ ret.fn = "none"
    /\ ret' = [fn |-> "parseFile",
               value |-> parseFile(arg.repo, arg.file, arg.content,
                                   ScannerAccepts)]
    /\ UNCHANGED <<handlerVars, schedVars, stopVars, fireVars, arg, faultVars>>

HasWorkflowDispatchInputs ==
    {[fn |-> "HasWorkflowDispatch", content |-> c] :
        c \in ContentsOver(PlainLines)}

CallHasWorkflowDispatch ==
    /\ arg.fn = "HasWorkflowDispatch"
    /\ ret.fn = "none"
    /\ ret' = [fn |-> "HasWorkflowDispatch",
               value |-> HasWorkflowDispatch(arg.content)]
    /\ UNCHANGED <<handlerVars, schedVars, stopVars, fireVars, arg, faultVars>>

\* fmt's %X of one byte of a byte slice, without the leading zero.
HexByteUnpadded(b) ==
    IF b < 16
    THEN <<"0", "1", "2", "3", "4", "5", "6", "7", "8", "9",
           "A", "B", "C", "D", "E", "F">>[b + 1]
    ELSE <<"0", "1", "2", "3", "4", "5", "6", "7", "8", "9",
           "A", "B", "C", "D", "E", "F">>[(b \div 16) + 1]
         \o <<"0", "1", "2", "3", "4", "5", "6", "7", "8", "9",
              "A", "B", "C", "D", "E", "F">>[(b % 16) + 1]

\* fmt's %X of one byte of a byte slice: two upper-case hexadecimal digits.
HexByte(b) ==
    <<"0", "1", "2", "3", "4", "5", "6", "7", "8", "9",
      "A", "B", "C", "D", "E", "F">>[(b \div 16) + 1]
    \o <<"0", "1", "2", "3", "4", "5", "6", "7", "8", "9",
         "A", "B", "C", "D", "E", "F">>[(b % 16) + 1]

\* First four bytes a SHA-256 sum may have.
HashPrefixes == {<<0, 10, 171, 255>>, <<222, 173, 190, 239>>}

\* The annotations variableName is called with.
NameAnnotations ==
    {[owner |-> o, repo |-> "r", workflowFile |-> f, cronExpr |-> e,
      ref |-> b] :
        o \in {"o", "p"}, f \in {"a.yml", "b.yml"}, e \in StandardExprs,
        b \in Refs}

\* input := annotation.WorkflowFile + ":" + annotation.CronExpr
HashInput(a) == a.workflowFile \o ":" \o a.cronExpr

\* StateManager.variableName, sha256 being the function sum.
variableName(sum, a) ==
    LET hash == sum[HashInput(a)]
    IN "GHACRON_LAST_" \o HexByte(hash[1]) \o HexByte(hash[2])
           \o HexByte(hash[3]) \o HexByte(hash[4])

\* variableName called for two annotations; sha256 maps each input to any
\* of the prefixes, the same one each time.
VariableNameInputs ==
    {[fn |-> "variableName", sum |-> s, a |-> a, b |-> b] :
        s \in [{HashInput(x) : x \in NameAnnotations} -> HashPrefixes],
        a \in NameAnnotations, b \in NameAnnotations}

CallVariableName ==
    /\ arg.fn = "variableName"
    /\ ret.fn = "none"
    /\ ret' = [fn |-> "variableName",
               value |-> <<variableName(arg.sum, arg.a),
                           variableName(arg.sum, arg.b)>>]
    /\ UNCHANGED <<handlerVars, schedVars, stopVars, fireVars, arg, faultVars>>

\* A GetLastDispatchTime that wraps the client's error in one of its own.
LastDispatchErrorWrapped(value, clientErr) ==
    IF clientErr # "" THEN "get: " \o clientErr
    ELSE IF value = EmptyText THEN ""
    ELSE IF ParseRFC3339(value).err THEN "parse"
    ELSE ""

\* The error StateManager.GetLastDispatchTime returns, "" for nil: the
\* error of Client.GetVariable as it is, or the error of time.Parse wrapped
\* by fmt.Errorf.
LastDispatchError(value, clientErr) ==
    IF clientErr # "" THEN clientErr
    ELSE IF value = EmptyText THEN ""
    ELSE IF ParseRFC3339(value).err THEN "parse"
    ELSE ""

\* GetLastDispatchTime called on the variable as it is stored; clientErr is
\* the error of the GetVariable request, "" when the request went through.
GetLastDispatchTimeInputs ==
    {[fn |-> "GetLastDispatchTime", clientErr |-> e] :
        e \in {"", "timeout", "forbidden"}}

CallGetLastDispatchTime ==
    /\ arg.fn = "GetLastDispatchTime"
    /\ ret.fn = "none"
    /\ LET got == GetVariable(store, arg.clientErr # "")
       IN ret' = [fn |-> "GetLastDispatchTime",
                  value |->
                      [t |-> GetLastDispatchTime(got.value, got.err).t,
                       error |-> LastDispatchError(got.value,
                                                   arg.clientErr)]]
    /\ UNCHANGED <<handlerVars, schedVars, stopVars, fireVars, arg, faultVars>>

\* The zone a CRON_TZ= or TZ= prefix names, "" when there is no prefix.
ZoneOfPrefix(expr) ==
    CASE expr = "CRON_TZ=Asia/Tokyo 0 8 * * *" -> "Asia/Tokyo"
      [] expr = "TZ=Europe/Paris */5 * * * *" -> "Europe/Paris"
      [] expr = "TZ=Local 0 8 * * *" -> "Local"
      [] OTHER -> ""

\* The Location of the schedule AddFunc parses from expr: the location
\* time.LoadLocation gives for the prefix's zone, time.Local without a
\* prefix; LoadLocation("Local") is time.Local itself.
ScheduleLocation(expr) ==
    IF ZoneOfPrefix(expr) = "" THEN "Local" ELSE ZoneOfPrefix(expr)

\* An engine that takes no notice of the schedule's own location.
EngineLocationOnly(expr, loc) == loc

\* The location in which the engine of cron.New(cron.WithLocation(loc))
\* computes the activation times of the schedule of expr: the schedule's
\* own location unless that is time.Local, and then the engine's.
EffectiveLocation(expr, loc) ==
    IF ScheduleLocation(expr) = "Local" THEN loc ELSE ScheduleLocation(expr)

\* Two jobs added to one engine: loc is the location given to New, host the
\* zone time.Local stands for on the machine.
EffectiveLocationInputs ==
    {[fn |-> "EffectiveLocation", loc |-> l, host |-> h, exprs |-> <<a, b>>] :
        l \in {"UTC", "Asia/Tokyo", "Local"}, h \in {"UTC", "Europe/Paris"},
        a \in StandardExprs \cup ZonedExprs \cup LocalZoneExprs,
        b \in StandardExprs \cup ZonedExprs \cup LocalZoneExprs}

CallEffectiveLocation ==
    /\ arg.fn = "EffectiveLocation"
    /\ ret.fn = "none"
    /\ ret' = [fn |-> "EffectiveLocation",
               value |-> [i \in 1..2 |->
                             EffectiveLocation(arg.exprs[i], arg.loc)]]
    /\ UNCHANGED <<handlerVars, schedVars, stopVars, fireVars, arg, faultVars>>

\* Client.SetVariable as a call of its own: the requests it sends to the
\* platform, in order, and the error it returns.  The update goes first; the
\* create is sent only when the update returned an error.
SetVariableAlwaysCreates(updateOK, createOK) ==
    [requests |-> <<"update", "create">>,
     err |-> SetVariableErr(updateOK, createOK)]

SetVariable(updateOK, createOK) ==
    [requests |-> IF updateOK THEN <<"update">> ELSE <<"update", "create">>,
     err |-> SetVariableErr(updateOK, createOK)]

SetVariableInputs ==
    {[fn |-> "SetVariable", updateOK |-> u, createOK |-> c] :
        u \in BOOLEAN, c \in BOOLEAN}

CallSetVariable ==
    /\ arg.fn = "SetVariable"
    /\ ret.fn = "none"
    /\ ret' = [fn |-> "SetVariable",
               value |-> SetVariable(arg.updateOK, arg.createOK)]
    /\ UNCHANGED <<handlerVars, schedVars, stopVars, fireVars, arg, faultVars>>

CallInputs ==
    ScanAllInputs \cup ParseFileInputs \cup HasWorkflowDispatchInputs
    \cup VariableNameInputs \cup GetLastDispatchTimeInputs
    \cup EffectiveLocationInputs \cup SetVariableInputs

\* Everything but the function called on its own is at rest; the variable
\* holds any text when GetLastDispatchTime is the function called.
InitCalls ==
    /\ arg \in CallInputs
    /\ ret = NoRet
    /\ HandlerInit /\ guardSeconds = 0 /\ ~dryRun
    /\ SchedInit /\ StopInit /\ FireInit
    /\ arg.fn # "GetLastDispatchTime" => store = EmptyText

NextCalls ==
    \/ CallScanAll
    \/ CallParseFile
    \/ CallHasWorkflowDispatch
    \/ CallVariableName
    \/ CallGetLastDispatchTime
    \/ CallEffectiveLocation
    \/ CallSetVariable

SpecCalls == InitCalls /\ [][NextCalls]_vars

\* ----------------------------------------------------------------- claims

Done(h) == pc[h] \in Terminal

PastGuard(h) == pc[h] \notin {"idle", "get", "guard"}

\* The handler saw DispatchWorkflow return an error.
DispatchFailed(h) == outcome[h] \in {"failed", "lost"}

Guard == GuardDuration(guardSeconds)

\* The instant a later read obtains from the text the pre-save of h wrote.
Mark(h) == ParseRFC3339(FormatRFC3339(now[h])).t

Abs(x) == IF x < 0 THEN 0 - x ELSE x

\* C1: an invocation calls DispatchWorkflow only after its own
\* SetLastDispatchTime(now) has returned without error; the pre-save is the
\* first SetVariable call of the invocation and carries the text of now.
C1_DispatchOnlyAfterPreSave ==
    \A h \in Handlers :
        (dispatchCalls[h] > 0 \/ pc[h] = "dispatch") =>
            /\ preSave[h] = "ok"
            /\ Len(setVarArgs[h]) >= 1
            /\ setVarArgs[h][1] = FormatRFC3339(now[h])

C1_Witness ==
    \E h \in Handlers :
        /\ pc[h] = "Ok"
        /\ dispatchCalls[h] = 1
        /\ preSave[h] = "ok"
        /\ setVarArgs[h] = <<FormatRFC3339(now[h])>>

\* C2, as claimed: no two invocations of one job key whose start times are
\* less than the guard window apart both call DispatchWorkflow.
C2_AtMostOnePerWindow ==
    \A i \in Handlers : \A j \in Handlers :
        (i # j /\ dispatchCalls[i] > 0 /\ dispatchCalls[j] > 0) =>
            Abs(startT[i] - startT[j]) >= Guard

\* C2, amended: of two invocations that both call DispatchWorkflow, one that
\* read without error the timestamp the other pre-saved evaluated its guard
\* at least the guard window after that (whole-second) timestamp.
C2_DispatchAfterObservedMark ==
    \A i \in Handlers : \A j \in Handlers :
        (/\ i # j
         /\ dispatchCalls[i] > 0
         /\ dispatchCalls[j] > 0
         /\ ~getErr[j]
         /\ lastDispatch[j] = Mark(i)) =>
            guardT[j] - Mark(i) >= Guard

C2_Witness ==
    \E i \in Handlers : \E j \in Handlers :
        /\ i # j
        /\ guardSeconds > 0
        /\ outcome[i] = "ok"
        /\ i \in prior[j]
        /\ ~getErr[j]
        /\ lastDispatch[j] = Mark(i)
        /\ dispatchCalls[j] > 0

\* C3, as claimed: when a dispatch took effect on the platform but the handler
\* saw an error, no invocation that starts afterwards, reads the variable
\* without error and evaluates its guard within the guard window of the
\* pre-saved timestamp calls DispatchWorkflow.
C3_NoRedispatchAfterLostResponse ==
    \A i \in Handlers : \A j \in Handlers :
        (/\ i # j
         /\ outcome[i] = "lost"
         /\ i \in prior[j]
         /\ PastGuard(j)
         /\ ~getErr[j]
         /\ guardT[j] - Mark(i) < Guard) =>
            dispatchCalls[j] = 0

C5_NoRollbackAfterFailedRead ==
    /\ [](\A h \in Handlers :
            (getErr[h] /\ DispatchFailed(h)) =>
                /\ pc[h] = "DispatchFailed"
                /\ setVarArgs[h] = <<FormatRFC3339(now[h])>>)
    /\ [][\A h \in Handlers :
            (pc[h] = "dispatch" /\ getErr[h] /\ DispatchFailed(h)') =>
                store' = store]_vars

C5_Witness ==
    \E h \in Handlers :
        /\ pc[h] = "DispatchFailed"
        /\ getErr[h]
        /\ DispatchFailed(h)
        /\ store = FormatRFC3339(now[h])

\* C6: an invocation that read a non-zero prev without error and finds
\* now - prev below the guard window ends Guarded, having called neither
\* SetVariable nor DispatchWorkflow, and the step that ends it leaves the
\* variable as it is.
C6_DuplicateGuardAborts ==
    /\ [](\A h \in Handlers :
            (/\ PastGuard(h)
             /\ ~getErr[h]
             /\ ~IsZero(lastDispatch[h])
             /\ guardT[h] - lastDispatch[h] < Guard) =>
                /\ pc[h] = "Guarded"
                /\ setVarArgs[h] = <<>>
                /\ dispatchCalls[h] = 0)
    /\ [][\A h \in Handlers :
            (pc[h] # "Guarded" /\ pc'[h] = "Guarded") => store' = store]_vars

C6_Witness ==
    \E h \in Handlers :
        /\ pc[h] = "Guarded"
        /\ guardT[h] >= lastDispatch[h]
        /\ guardT[h] - lastDispatch[h] < Guard

\* C7: an invocation whose pre-save failed ends PreSaveFailed with no
\* DispatchWorkflow call and no SetVariable call but the pre-save.
C7_PreSaveFailureAborts ==
    \A h \in Handlers :
        preSave[h] = "failed" =>
            /\ pc[h] = "PreSaveFailed"
            /\ dispatchCalls[h] = 0
            /\ setVarArgs[h] = <<FormatRFC3339(now[h])>>

C7_Witness ==
    \E h \in Handlers :
        /\ pc[h] = "PreSaveFailed"
        /\ preSave[h] = "failed"
        /\ Len(setVarArgs[h]) = 1

\* C8, as claimed: an invocation whose read failed and that is not a dry run
\* calls DispatchWorkflow exactly once.
C8_FailOpenAlwaysDispatches ==
    \A h \in Handlers :
        (Done(h) /\ getErr[h] /\ ~dryRun) => dispatchCalls[h] = 1

\* C8, amended: an invocation whose read failed is never stopped by the
\* duplicate guard; unless it is a dry run it makes the pre-save, and calls
\* DispatchWorkflow exactly once if the pre-save succeeded and not at all if
\* the pre-save failed.
C8_FailOpenOnRead ==
    \A h \in Handlers :
        (getErr[h] /\ PastGuard(h)) =>
            /\ pc[h] # "Guarded"
            /\ dryRun => pc[h] = "DryRun"
            /\ (~dryRun /\ Done(h)) =>
                  /\ Len(setVarArgs[h]) >= 1
                  /\ preSave[h] = "ok" => dispatchCalls[h] = 1
                  /\ preSave[h] = "failed" => dispatchCalls[h] = 0

C8_Witness ==
    \E h \in Handlers :
        /\ getErr[h]
        /\ pc[h] = "Ok"
        /\ preSave[h] = "ok"
        /\ dispatchCalls[h] = 1

\* C9: in dry-run mode no invocation calls SetVariable or DispatchWorkflow,
\* and no step changes the variable.
C9_DryRunNoSideEffect ==
    /\ [](dryRun =>
            /\ platformRuns = 0
            /\ \A h \in Handlers :
                  setVarArgs[h] = <<>> /\ dispatchCalls[h] = 0)
    /\ [][dryRun => store' = store]_vars

C9_Witness ==
    /\ dryRun
    /\ \E h \in Handlers : pc[h] = "DryRun" /\ getErr[h]
    /\ \E h \in Handlers : pc[h] = "DryRun" /\ ~getErr[h]

\* C10, as claimed: with a guard window of 0 no invocation is stopped by the
\* duplicate guard, whatever timestamp the variable holds.
C10_GuardZeroNeverGuards ==
    guardSeconds = 0 => \A h \in Handlers : pc[h] # "Guarded"

\* C11: when GetVariable returned the empty text without error (the variable
\* is absent or empty), GetLastDispatchTime gave the zero instant and no
\* error, the duplicate guard did not stop the invocation, and outside dry-run
\* mode the invocation went on to the pre-save.
C11_AbsentVariableProceeds ==
    \A h \in Handlers :
        (pc[h] \notin {"idle", "get"}
         /\ readValue[h] = ReadKind(GetVariable(EmptyText, FALSE)))
        => /\ ~getErr[h]
           /\ IsZero(lastDispatch[h])
           /\ pc[h] # "Guarded"
           /\ (PastGuard(h) /\ ~dryRun) =>
                  (pc[h] = "presave" \/ Len(setVarArgs[h]) >= 1)

C11_Witness ==
    \E h \in Handlers :
        /\ readValue[h] = ReadKind(GetVariable(EmptyText, FALSE))
        /\ guardSeconds > 0
        /\ preSave[h] = "ok"
        /\ setVarArgs[h][1] = FormatRFC3339(now[h])

\* Keys of the annotations the running or last iteration's scan returned.
ScannedKeys ==
    {Key(scanResult.annotations[i]) : i \in DOMAIN scanResult.annotations}

\* C12: after a Reconcile that returned nil, GetRegisteredKeys holds exactly
\* the distinct keys of the scanned annotations, each with one cron entry of
\* its own, so annotations with the same key are collapsed into one job.
C12_RegistryEqualsScannedKeys ==
    recReturn = "nil" =>
        /\ GetRegisteredKeys(registeredJobs) = ScannedKeys
        /\ Cardinality(DOMAIN cronEntries) = Cardinality(ScannedKeys)
        /\ \A k \in DOMAIN registeredJobs :
              /\ registeredJobs[k] \in DOMAIN cronEntries
              /\ Key(cronEntries[registeredJobs[k]]) = k

C12_Witness ==
    /\ recReturn = "nil"
    /\ Len(scanResult.annotations) = 2
    /\ scanResult.annotations[1] = scanResult.annotations[2]
    /\ addCalls = 1
    /\ Cardinality(DOMAIN registeredJobs) = 1

\* C13: after a Reconcile that returned nil, a key that was registered when
\* the iteration began and is not among the scanned keys is no longer
\* registered, and its cron entry is gone.
C13_UnscannedKeysRemoved ==
    recReturn = "nil" =>
        \A k \in DOMAIN regBefore :
            k \notin ScannedKeys =>
                /\ k \notin GetRegisteredKeys(registeredJobs)
                /\ regBefore[k] \notin DOMAIN cronEntries

C13_Witness ==
    /\ recReturn = "nil"
    /\ removeCalls = 1
    /\ \E k \in DOMAIN regBefore :
          k \notin ScannedKeys /\ k \notin DOMAIN registeredJobs
    /\ \E k \in DOMAIN regBefore : k \in DOMAIN registeredJobs

\* C14: an iteration whose scan result equals that of the successful
\* iteration before it makes no AddJob and no RemoveJob call and leaves the
\* registry and the cron entries as they were.
C14_SameScanIsNoOp ==
    (~scanResult.err /\ scanResult = prevScan /\ recPc # "scan") =>
        /\ addCalls = 0
        /\ removeCalls = 0
        /\ toAdd = {}
        /\ toRemove = {}
        /\ registeredJobs = regBefore
        /\ cronEntries = entriesBefore

C14_Witness ==
    /\ recReturn = "nil"
    /\ scanResult = prevScan
    /\ iter = 3
    /\ Cardinality(DOMAIN registeredJobs) = 2

\* C17: Reconcile returns an error exactly when ScanAll did, and then has
\* called neither AddJob nor RemoveJob and left the registry alone; when
\* ScanAll succeeded, Reconcile returns nil after calling AddJob for every key
\* to add and RemoveJob for every key to remove, also when an AddJob failed.
C17_OnlyScanErrorFailsReconcile ==
    /\ (recReturn = "err") = scanResult.err
    /\ scanResult.err =>
          /\ addCalls = 0
          /\ removeCalls = 0
          /\ registeredJobs = regBefore
          /\ cronEntries = entriesBefore
    /\ recReturn = "nil" =>
          /\ addCalls = Cardinality(ToAdd(desiredMap, DOMAIN regBefore))
          /\ removeCalls = Cardinality(ToRemove(desiredMap, DOMAIN regBefore))
          /\ \A k \in DOMAIN desiredMap :
                CronAccepts(k.cronExpr) => k \in DOMAIN registeredJobs
          /\ \A k \in DOMAIN regBefore :
                k \notin DOMAIN desiredMap => k \notin DOMAIN registeredJobs

C17_Witness ==
    /\ recReturn = "nil"
    /\ addFailed # {}
    /\ addCalls = 2
    /\ removeCalls = 1
    /\ Cardinality(DOMAIN registeredJobs) = 1
    /\ DOMAIN registeredJobs # DOMAIN regBefore

C15_AddJobIdempotent ==
    /\ []((lastCall.op = "AddJob" /\ lastCall.existed) => ~lastCall.err)
    /\ [][(lastCall'.op = "AddJob"
            /\ lastCall'.key \in GetRegisteredKeys(registeredJobs))
           => /\ lastCall'.existed
              /\ registeredJobs' = registeredJobs
              /\ cronEntries' = cronEntries
              /\ nextID' = nextID]_vars

C15_Witness ==
    /\ lastCall.op = "AddJob"
    /\ lastCall.existed
    /\ nextID = 1
    /\ DOMAIN cronEntries = {1}
    /\ registeredJobs[lastCall.key] = 1

\* C16: after RemoveJob(k) the key k is not registered, and RemoveJob for a
\* key that is not registered changes neither the registry nor the cron
\* entries, so a second RemoveJob(k) does what the first left to do: nothing.
C16_RemoveJobIdempotent ==
    /\ [](lastCall.op = "RemoveJob" =>
             lastCall.key \notin GetRegisteredKeys(registeredJobs))
    /\ [][(lastCall'.op = "RemoveJob"
            /\ lastCall'.key \notin GetRegisteredKeys(registeredJobs))
           => /\ registeredJobs' = registeredJobs
              /\ cronEntries' = cronEntries
              /\ nextID' = nextID]_vars

C16_Witness ==
    /\ lastCall.op = "RemoveJob"
    /\ ~lastCall.existed
    /\ lastCall.key.cronExpr \in StandardExprs
    /\ Cardinality(DOMAIN registeredJobs) = 1
    /\ nextID = 2

\* C19, as claimed: the first Reconcile runs before any tick, later ones
\* take one tick each and start only when none is running, and once the
\* context is cancelled the loop starts no iteration after the first.
C19_NoIterationAfterCancel ==
    /\ [](iter = 0 => ~tickPending)
    /\ [][iter' # iter =>
            /\ iter' = iter + 1
            /\ recPc = "idle"
            /\ iter >= 1 => (tickPending /\ ~tickPending')]_vars
    /\ [][(cancelled /\ iter >= 1) => iter' = iter]_vars

\* C20: when Stop has returned, every handler invocation that was running
\* when Stop was called has returned; and no call of a handler ever finds its
\* context cancelled by the cancellation of the reconcile loop's context, so
\* the calls of an invocation in flight can still succeed.
C20_StopWaitsForHandlers ==
    /\ stopPc = "returned" =>
          \A h \in Handlers :
              pcAtStop[h] \notin {"idle"} \cup Terminal => Done(h)
    /\ \A h \in Handlers : ~sawCancel[h]

C20_Witness ==
    /\ stopPc = "returned"
    /\ \E h \in Handlers :
          /\ pcAtCancel[h] = "get"
          /\ pcAtStop[h] = "get"
          /\ pc[h] = "Ok"
          /\ platformRuns >= 1

\* The files of the scan ScanAll could read: <<i, j>> for file j of
\* repository i, when the files of i could be listed and j could be read.
ReadableFiles(repos) ==
    {ij \in (DOMAIN repos) \X (1..(MaxFiles + 1)) :
        /\ ~repos[ij[1]].filesErr
        /\ ij[2] \in DOMAIN repos[ij[1]].files
        /\ ~repos[ij[1]].files[ij[2]].readErr}

\* What file ij of the scan holds: the result of parseFile on it.
FileResult(repos, ij) ==
    parseFile(repos[ij[1]], repos[ij[1]].files[ij[2]],
              repos[ij[1]].files[ij[2]].content, ScannerAccepts)

\* The entries of a list that name file ij.
EntriesOf(list, repos, ij) ==
    SelectSeq(list, LAMBDA a : /\ a.repo = repos[ij[1]].name
                               /\ a.workflowFile = repos[ij[1]].files[ij[2]].name)

\* C21: ScanAll returns an error exactly when GetInstallationRepos failed;
\* otherwise its result holds, for every file that could be read in a
\* repository whose files could be listed, what parseFile gives for that
\* file, and holds nothing for any other repository or file.
C21_ScanAllFailsOnlyOnRepoList ==
    ret.fn = "ScanAll" =>
        /\ ret.value.err = arg.listErr
        /\ ~arg.listErr =>
              /\ \A ij \in ReadableFiles(arg.repos) :
                    /\ EntriesOf(ret.value.annotations, arg.repos, ij)
                          = FileResult(arg.repos, ij).annotations
                    /\ EntriesOf(ret.value.skipped, arg.repos, ij)
                          = FileResult(arg.repos, ij).skipped
              /\ \A k \in DOMAIN ret.value.annotations :
                    \E ij \in ReadableFiles(arg.repos) :
                        EntriesOf(<<ret.value.annotations[k]>>, arg.repos, ij)
                            # <<>>
              /\ \A k \in DOMAIN ret.value.skipped :
                    \E ij \in ReadableFiles(arg.repos) :
                        EntriesOf(<<ret.value.skipped[k]>>, arg.repos, ij)
                            # <<>>

C21_Witness ==
    /\ ret.fn = "ScanAll"
    /\ ~ret.value.err
    /\ Len(arg.repos) = 2
    /\ arg.repos[1].filesErr
    /\ Len(arg.repos[2].files) = 2
    /\ arg.repos[2].files[1].readErr
    /\ Len(ret.value.annotations) = 1
    /\ ret.value.annotations[1].workflowFile = "b.yml"
    /\ Len(ret.value.skipped) = 1

\* The cron expressions of a list of annotations or skipped entries.
ExprsOf(list) == [i \in DOMAIN list |-> list[i].cronExpr]

\* C22: for a file without workflow_dispatch parseFile returns no annotation
\* and no skipped entry; otherwise the expressions of ParseAnnotations that
\* the 5-field parser accepts are, in order and with their text unchanged,
\* the annotations (ref being the default branch), and those it rejects
\* are, in order, the skipped entries, each with a reason that is not empty.
C22_EachExpressionAnnotationOrSkipped ==
    ret.fn = "parseFile" =>
        LET exprs == ParseAnnotations(arg.content)
            res == ret.value
        IN /\ ~HasWorkflowDispatch(arg.content) =>
                 res.annotations = <<>> /\ res.skipped = <<>>
           /\ HasWorkflowDispatch(arg.content) =>
                 /\ Len(res.annotations) + Len(res.skipped) = Len(exprs)
                 /\ ExprsOf(res.annotations)
                       = SelectSeq(exprs, LAMBDA e : e \in ScannerAccepts)
                 /\ ExprsOf(res.skipped)
                       = SelectSeq(exprs, LAMBDA e : e \notin ScannerAccepts)
                 /\ \A i \in DOMAIN res.annotations :
                       /\ res.annotations[i].ref = arg.repo.defaultBranch
                       /\ res.annotations[i].owner = arg.repo.owner
                       /\ res.annotations[i].repo = arg.repo.name
                       /\ res.annotations[i].workflowFile = arg.file.name
                 /\ \A i \in DOMAIN res.skipped :
                       /\ res.skipped[i].reason # ""
                       /\ res.skipped[i].workflowFile = arg.file.name

C22_Witness ==
    /\ ret.fn = "parseFile"
    /\ arg.repo.defaultBranch = "dev"
    /\ Len(arg.content) = 3
    /\ Len(ret.value.annotations) = 1
    /\ ret.value.annotations[1].cronExpr = "CRON_TZ=Asia/Tokyo 0 8 * * *"
    /\ ret.value.annotations[1].ref = "dev"
    /\ Len(ret.value.skipped) = 1
    /\ ret.value.skipped[1].cronExpr = "CRON_TZ=Asis/Tokyo 0 8 * * *"

RECURSIVE ClaimedDispatchFrom(_, _, _)
\* The on: block as the claim tracks it: a # in column 0 does not end it.
ClaimedDispatchFrom(lines, i, inOn) ==
    IF i > Len(lines) THEN FALSE
    ELSE IF lines[i].on
    THEN lines[i].wd \/ ClaimedDispatchFrom(lines, i + 1, TRUE)
    ELSE IF inOn
    THEN IF LeavesOnBlockUnlessComment(lines[i])
         THEN ClaimedDispatchFrom(lines, i + 1, FALSE)
         ELSE lines[i].wd \/ ClaimedDispatchFrom(lines, i + 1, TRUE)
    ELSE ClaimedDispatchFrom(lines, i + 1, FALSE)

\* C28, as claimed: HasWorkflowDispatch enters the on: block at a line whose
\* trimmed text starts with on:, leaves it only at a later line that starts
\* in column 0 with a character that is neither white space nor #, and is
\* true exactly when the on: line or a line inside the block contains
\* workflow_dispatch.
C28_OnBlockEndsAtTopLevelKey ==
    ret.fn = "HasWorkflowDispatch" =>
        ret.value = ClaimedDispatchFrom(arg.content, 1, FALSE)

\* The two upper-case hexadecimal digits of the bytes of HashPrefixes.
TwoDigits(b) ==
    CASE b = 0 -> "00" [] b = 10 -> "0A" [] b = 171 -> "AB" [] b = 255 -> "FF"
      [] b = 222 -> "DE" [] b = 173 -> "AD" [] b = 190 -> "BE"
      [] b = 239 -> "EF"

\* C23: the variable name is GHACRON_LAST_ followed by exactly 8 upper-case
\* hexadecimal digits, those of the first 4 bytes of the SHA-256 sum, and
\* two annotations with the same workflowFile and cronExpr get the same
\* name, whatever their owner, repo and ref.
C23_VariableNameFromFileAndExpr ==
    ret.fn = "variableName" =>
        /\ \A i \in 1..2 :
              /\ Len(ret.value[i]) = Len("GHACRON_LAST_") + 8
              /\ \E p \in HashPrefixes :
                    ret.value[i] = "GHACRON_LAST_" \o TwoDigits(p[1])
                        \o TwoDigits(p[2]) \o TwoDigits(p[3])
                        \o TwoDigits(p[4])
        /\ (/\ arg.a.workflowFile = arg.b.workflowFile
            /\ arg.a.cronExpr = arg.b.cronExpr) =>
               ret.value[1] = ret.value[2]

C23_Witness ==
    /\ ret.fn = "variableName"
    /\ arg.a.owner # arg.b.owner
    /\ arg.a.ref # arg.b.ref
    /\ arg.a.workflowFile = arg.b.workflowFile
    /\ arg.a.cronExpr = arg.b.cronExpr
    /\ ret.value = <<"GHACRON_LAST_000AABFF", "GHACRON_LAST_000AABFF">>

\* C24: GetLastDispatchTime returns the zero instant and no error when the
\* variable is absent or empty, an error of its own when the variable holds
\* a text that is not RFC3339, the client's error as it is when the request
\* failed, the stored instant otherwise; and it leaves the variable as it is.
C24_GetLastDispatchTimeResults ==
    [][(ret.fn = "none" /\ ret'.fn = "GetLastDispatchTime") =>
          /\ store' = store
          /\ arg.clientErr # "" => ret'.value.error = arg.clientErr
          /\ (arg.clientErr = "" /\ store.kind = "empty") =>
                ret'.value.error = "" /\ IsZero(ret'.value.t)
          /\ (arg.clientErr = "" /\ store.kind = "bad") =>
                ret'.value.error \notin {"", "timeout", "forbidden"}
          /\ (arg.clientErr = "" /\ store.kind = "rfc3339") =>
                /\ ret'.value.error = ""
                /\ FormatRFC3339(ret'.value.t) = store]_vars

C24_Witness ==
    /\ ret.fn = "GetLastDispatchTime"
    /\ arg.clientErr = "timeout"
    /\ store = Text(1)
    /\ ret.value.error = "timeout"
    /\ IsZero(ret.value.t)

\* The zone a location stands for on the machine of the call.
ZoneOf(loc) == IF loc = "Local" THEN arg.host ELSE loc

Rank(p) ==
    CASE p = "idle" -> 0 [] p = "get" -> 1 [] p = "guard" -> 2
      [] p = "presave" -> 3 [] p = "dispatch" -> 4 [] p = "rollback" -> 5
      [] OTHER -> 6

\* The next call of invocation h.
HandlerStep(h) ==
    \/ HandlerGet(h)
    \/ HandlerGuard(h)
    \/ HandlerPreSave(h)
    \/ HandlerDispatch(h)
    \/ HandlerRollback(h)

\* C26, as claimed: an invocation that has ended is in one of the states
\* Guarded, DryRun, PreSaveFailed, Ok, RolledBack and RollbackFailed, and
\* one that ended RollbackFailed made two SetVariable calls and one
\* DispatchWorkflow call.
C26_SixTerminalStates ==
    \A h \in Handlers :
        /\ pc[h] \in {"idle", "get", "guard", "presave", "dispatch",
                      "rollback", "Guarded", "DryRun", "PreSaveFailed", "Ok",
                      "RolledBack", "RollbackFailed"}
        /\ pc[h] = "RollbackFailed" =>
              Len(setVarArgs[h]) = 2 /\ dispatchCalls[h] = 1

\* C26, amended: an invocation never goes back and cannot get stuck, so it
\* ends after at most five calls, in one of the states Guarded, DryRun,
\* PreSaveFailed, Ok, RolledBack, RollbackFailed and DispatchFailed (its read
\* and its dispatch failed, no rollback is made); one that ended
\* RollbackFailed made two SetVariable calls and one DispatchWorkflow call.
C26_SevenTerminalStates ==
    [][\A h \in Handlers :
          /\ pc'[h] # pc[h] => Rank(pc'[h]) > Rank(pc[h])
          /\ Rank(pc'[h]) = 6 =>
                pc'[h] \in {"Guarded", "DryRun", "PreSaveFailed", "Ok",
                            "RolledBack", "RollbackFailed", "DispatchFailed"}
          /\ pc[h] \in {"get", "guard", "presave", "dispatch", "rollback"} =>
                ENABLED HandlerStep(h)
          /\ pc'[h] = "RollbackFailed" =>
                Len(setVarArgs'[h]) = 2 /\ dispatchCalls'[h] = 1
          /\ pc'[h] = "DispatchFailed" =>
                getErr'[h] /\ Len(setVarArgs'[h]) = 1 /\ dispatchCalls'[h] = 1]_vars

C26_Witness ==
    \E h \in Handlers :
        /\ pc[h] = "RollbackFailed"
        /\ Len(setVarArgs[h]) = 2
        /\ dispatchCalls[h] = 1
        /\ \E g \in Handlers : pc[g] = "DispatchFailed"

\* C27: an invocation that found the variable absent and whose dispatch
\* failed has, when it ends, made exactly two SetVariable calls, the second
\* with the RFC3339 text of the zero instant; and an invocation that read
\* that text got the zero instant without error and was not stopped by the
\* duplicate guard.
C27_RollbackToZeroInstant ==
    /\ \A h \in Handlers :
          (Done(h) /\ readValue[h] = "empty" /\ DispatchFailed(h)) =>
              setVarArgs[h] = <<FormatRFC3339(now[h]), Text(ZeroSec)>>
    /\ \A j \in Handlers :
          (/\ pc[j] \notin {"idle", "get"}
           /\ readValue[j] = "rfc3339"
           /\ lastDispatch[j] = ParseRFC3339(Text(ZeroSec)).t) =>
              /\ ~getErr[j]
              /\ IsZero(lastDispatch[j])
              /\ pc[j] # "Guarded"

C27_Witness ==
    \E h \in Handlers : \E j \in Handlers :
        /\ pc[h] = "RolledBack"
        /\ readValue[h] = "empty"
        /\ setVarArgs[h] = <<FormatRFC3339(now[h]), Text(ZeroSec)>>
        /\ h \in prior[j]
        /\ guardSeconds > 0
        /\ readValue[j] = "rfc3339"
        /\ IsZero(lastDispatch[j])
        /\ pc[j] = "Ok"

\* C29: whatever AddJob and RemoveJob calls have been made, in whatever
\* order, every registered key maps to a live cron entry made for that key,
\* every live cron entry is the entry of its key in the registry, and no two
\* live cron entries have the same key.
C29_RegistryIsSetOfKeys ==
    /\ \A k \in DOMAIN registeredJobs :
          /\ registeredJobs[k] \in DOMAIN cronEntries
          /\ Key(cronEntries[registeredJobs[k]]) = k
    /\ \A e \in DOMAIN cronEntries :
          /\ Key(cronEntries[e]) \in DOMAIN registeredJobs
          /\ registeredJobs[Key(cronEntries[e])] = e
    /\ \A e1 \in DOMAIN cronEntries : \A e2 \in DOMAIN cronEntries :
          Key(cronEntries[e1]) = Key(cronEntries[e2]) => e1 = e2

C29_Witness ==
    /\ Cardinality(DOMAIN registeredJobs) = 2
    /\ DOMAIN cronEntries = {2, 3}
    /\ Key(cronEntries[3]) = Key(CronAnnotation("0 8 * * *", "main"))
    /\ cronEntries[3].ref = "dev"
    /\ lastCall.op = "AddJob"

\* C30: an invocation keeps the annotation and the entry it was started
\* with, whatever AddJob and RemoveJob calls are made while it runs, can
\* always take its next step, and calls DispatchWorkflow with the owner,
\* repo, workflow file and ref of that annotation; an invocation starts only
\* from a live cron entry, with the annotation the entry was added with, and
\* an entry RemoveJob removed is never live again.
C30_HandlerKeepsCapturedAnnotation ==
    [][/\ \A h \in Handlers :
             /\ pc[h] # "idle" =>
                   /\ annotation'[h] = annotation[h]
                   /\ invEntry'[h] = invEntry[h]
             /\ pc[h] \in {"get", "guard", "presave", "dispatch", "rollback"}
                   => ENABLED HandlerStep(h)
             /\ dispatchCalls'[h] > dispatchCalls[h] =>
                   dispatchArgs'[h] = DispatchArgs(annotation[h])
             /\ (pc[h] = "idle" /\ pc'[h] # "idle") =>
                   /\ invEntry'[h] \in DOMAIN cronEntries
                   /\ annotation'[h] = cronEntries[invEntry'[h]]
       /\ \A e \in 1..nextID :
             e \notin DOMAIN cronEntries => e \notin DOMAIN cronEntries']_vars

C30_Witness ==
    \E h \in Handlers :
        /\ pc[h] = "Ok"
        /\ invEntry[h] = 1
        /\ dispatchArgs[h].ref = "main"
        /\ 1 \notin DOMAIN cronEntries
        /\ DOMAIN registeredJobs = {Key(annotation[h])}
        /\ cronEntries[registeredJobs[Key(annotation[h])]].ref = "dev"
        /\ \E g \in Handlers : pc[g] = "dispatch" /\ annotation[g].ref = "dev"

\* C31: SetVariable sends the update first and the create only after a failed
\* update; it returns nil when either request succeeded and an error only when
\* both failed, and it never sends a create after a successful update.
C31_UpdateThenCreateOnlyOnFailure ==
    (ret.fn = "SetVariable") =>
        /\ ret.value.requests[1] = "update"
        /\ (Len(ret.value.requests) = 2) = ~arg.updateOK
        /\ Len(ret.value.requests) = 2 => ret.value.requests[2] = "create"
        /\ ret.value.err = (~arg.updateOK /\ ~arg.createOK)
        /\ arg.updateOK => ret.value.requests = <<"update">>

C31_Witness ==
    /\ ret.fn = "SetVariable"
    /\ ~arg.updateOK /\ arg.createOK
    /\ ret.value.requests = <<"update", "create">>
    /\ ~ret.value.err

\* C32: an AddJob call that returns an error because the engine rejected the
\* expression leaves the registry, the cron entries and the engine's ID
\* counter as they were and its key unregistered; at every moment the
\* registry's entry IDs are exactly the live cron entries, one per key.
C32_FailedAddJobChangesNothing ==
    /\ [](/\ {registeredJobs[k] : k \in DOMAIN registeredJobs}
               = DOMAIN cronEntries
          /\ Cardinality(DOMAIN registeredJobs)
               = Cardinality(DOMAIN cronEntries))
    /\ [][(lastCall'.op = "AddJob" /\ lastCall'.err)
           => /\ ~CronAccepts(lastCall'.key.cronExpr)
              /\ registeredJobs' = registeredJobs
              /\ cronEntries' = cronEntries
              /\ nextID' = nextID
              /\ lastCall'.key \notin DOMAIN registeredJobs']_vars

C32_Witness ==
    /\ lastCall.op = "AddJob"
    /\ lastCall.err
    /\ lastCall.key.cronExpr \in InvalidExprs
    /\ Cardinality(DOMAIN registeredJobs) = 1
    /\ DOMAIN cronEntries = {1}
    /\ nextID = 1

\* C33: at every moment of a Reconcile iteration, a key that was registered
\* when the iteration began and is in the scanned desired set is registered
\* with the cron entry it had, and every registered key was registered when
\* the iteration began or is in the desired set.
C33_KeptKeysStayRegistered ==
    /\ \A k \in DOMAIN regBefore \cap DOMAIN desiredMap :
          /\ k \in GetRegisteredKeys(registeredJobs)
          /\ registeredJobs[k] = regBefore[k]
          /\ registeredJobs[k] \in DOMAIN cronEntries
          /\ cronEntries[registeredJobs[k]] = entriesBefore[regBefore[k]]
    /\ GetRegisteredKeys(registeredJobs)
          \subseteq DOMAIN regBefore \cup DOMAIN desiredMap

C33_Witness ==
    /\ recPc = "apply"
    /\ removeCalls > 0
    /\ toRemove = {}
    /\ DOMAIN regBefore \cap DOMAIN desiredMap # {}
    /\ DOMAIN regBefore \ DOMAIN desiredMap # {}
    /\ GetRegisteredKeys(registeredJobs) = DOMAIN desiredMap

\* The keys whose file the scan could not read under the given fault.
Unread(k, fault) ==
    \/ fault = "files"
    \/ fault = "read" /\ k.workflowFile = "a.yml"

\* C34: when GetWorkflowFiles fails for the repository or GetFileContent fails
\* for a file while the scan as a whole succeeds, no key of that repository
\* or file is in the desired set, every such registered key is listed for
\* removal and is removed before that Reconcile returns, and such a key is
\* registered again only in an iteration whose scan read its file.
C34_UnreadJobsRemovedUntilRead ==
    [][/\ (recPc = "scan" /\ recPc' # "scan" /\ scanFault' # "none")
          => /\ ~scanResult'.err
             /\ recPc' = "apply"
             /\ \A k \in DOMAIN desiredMap' : ~Unread(k, scanFault')
             /\ \A k \in GetRegisteredKeys(registeredJobs) :
                   Unread(k, scanFault') => k \in toRemove'
       /\ (recPc = "apply" /\ recPc' = "return")
          => /\ recReturn' = "nil"
             /\ \A k \in GetRegisteredKeys(registeredJobs') :
                   ~Unread(k, scanFault)
       /\ \A k \in GetRegisteredKeys(registeredJobs') :
             k \notin GetRegisteredKeys(registeredJobs)
             => /\ recPc = "apply"
                /\ scanFault' = scanFault
                /\ ~Unread(k, scanFault)]_vars

C34_Witness ==
    /\ recPc = "return"
    /\ recReturn = "nil"
    /\ scanFault = "read"
    /\ \E k \in DOMAIN regBefore : k.workflowFile = "a.yml"
    /\ \E k \in DOMAIN regBefore : k.workflowFile = "b.yml"
    /\ Cardinality(GetRegisteredKeys(registeredJobs)) = 1
    /\ \A k \in GetRegisteredKeys(registeredJobs) : k.workflowFile = "b.yml"
    /\ removeCalls = 1

\* Two annotations of one job: equal owner, repository, file and expression.
SameJob(a, b) ==
    /\ a.owner = b.owner
    /\ a.repo = b.repo
    /\ a.workflowFile = b.workflowFile
    /\ a.cronExpr = b.cronExpr

\* C35: when a scan finds the job of a live cron entry again, with whatever
\* default branch, Reconcile lists no AddJob and no RemoveJob for it and
\* makes no such call; a cron entry keeps the annotation, ref included, that
\* AddJob gave it, and an invocation calls DispatchWorkflow with the ref of
\* the entry that started it.
C35_RegisteredJobKeepsRef ==
    [][/\ (recPc = "scan" /\ recPc' = "apply") =>
             \A e \in DOMAIN cronEntries :
                \A i \in DOMAIN scanResult'.annotations :
                   SameJob(cronEntries[e], scanResult'.annotations[i]) =>
                      /\ Key(scanResult'.annotations[i]) \notin toAdd'
                      /\ toRemove' = {}
       /\ (addCalls' > addCalls \/ removeCalls' > removeCalls) =>
             \A e \in DOMAIN entriesBefore :
                \A i \in DOMAIN scanResult.annotations :
                   SameJob(entriesBefore[e], scanResult.annotations[i]) =>
                      lastCall'.key # Key(entriesBefore[e])
       /\ \A e \in DOMAIN cronEntries :
             e \in DOMAIN cronEntries' => cronEntries'[e] = cronEntries[e]
       /\ \A e \in DOMAIN cronEntries' :
             e \notin DOMAIN cronEntries =>
                /\ lastCall'.op = "AddJob"
                /\ cronEntries'[e] = desiredMap[lastCall'.key]
       /\ dispatchCalls'[1] > dispatchCalls[1] =>
             /\ dispatchArgs'[1].ref = annotation[1].ref
             /\ invEntry[1] \in DOMAIN cronEntries =>
                   dispatchArgs'[1].ref = cronEntries[invEntry[1]].ref]_vars

C35_Witness ==
    /\ pc[1] = "Ok"
    /\ dispatchArgs[1].ref = "main"
    /\ recPc = "return"
    /\ iter = 2
    /\ addCalls = 0
    /\ removeCalls = 0
    /\ DOMAIN cronEntries = {1}
    /\ invEntry[1] = 1
    /\ cronEntries[1].ref = "main"
    /\ Len(scanResult.annotations) = 1
    /\ SameJob(scanResult.annotations[1], cronEntries[1])
    /\ scanResult.annotations[1].ref = "dev"

\* C36, as claimed: once an invocation has pre-saved its now and dispatched
\* successfully, no SetVariable call of another invocation changes the
\* variable to an instant earlier than that now.
C36_SavedTimeNeverLowered ==
    [][\A i \in Handlers : \A j \in Handlers :
          (/\ i # j
           /\ pc[i] = "Ok"
           /\ Len(setVarArgs'[j]) > Len(setVarArgs[j])
           /\ store' # store) =>
              /\ ~ParseRFC3339(store').err
              /\ ParseRFC3339(store').t >= Mark(i)]_vars

\* C37: runReconcile sets the last-reconcile timestamp when an attempt ends,
\* whether Reconcile returned nil or an error; the timestamp never decreases,
\* and it is the zero time exactly as long as no attempt has finished.
C37_LastReconcileAfterEveryAttempt ==
    /\ [](/\ (lastReconcile = 0) = (iter = 0 \/ (iter = 1 /\ recPc # "idle"))
          /\ (iter > 0 /\ recPc = "idle") => lastReconcile = iter)
    /\ [][/\ lastReconcile' >= lastReconcile
          /\ (recPc = "return" /\ recPc' = "idle") =>
                /\ recReturn \in {"nil", "err"}
                /\ lastReconcile' = iter
                /\ lastReconcile' > lastReconcile]_vars

C37_Witness ==
    /\ recPc = "idle"
    /\ recReturn = "err"
    /\ scanResult.err
    /\ iter = 2
    /\ lastReconcile = 2

\* C38: main calls Stop once it has cancelled the context, wherever the
\* reconcile loop stands, and Stop returns when no invocation is running,
\* without waiting for the loop; after Stop has returned no invocation
\* starts, although an iteration still in flight goes on calling AddJob and
\* RemoveJob and its new entries are kept.
C38_NoInvocationStartsAfterStop ==
    /\ [](/\ (cancelled /\ stopPc = "none") => ENABLED StopCall
          /\ (stopPc = "waiting" /\ Running = {}) => ENABLED StopReturn
          /\ stopPc = "returned" =>
                /\ Running = {}
                /\ ~ENABLED (\E e \in 1..MaxEntryID : FireEntry(1, e))
                /\ (recPc = "apply" /\ toAdd # {}) => ENABLED ReconcileAdd
                /\ (recPc = "apply" /\ toAdd = {} /\ toRemove # {})
                      => ENABLED ReconcileRemove)
    /\ [][stopPc = "returned" =>
             /\ \A h \in Handlers : pc'[h] = pc[h]
             /\ dispatchCalls' = dispatchCalls
             /\ (addCalls' > addCalls /\ ~lastCall'.err) =>
                   /\ lastCall'.key \in GetRegisteredKeys(registeredJobs')
                   /\ registeredJobs'[lastCall'.key] \in DOMAIN cronEntries'
                   /\ registeredJobs'[lastCall'.key]
                         \notin DOMAIN cronEntries]_vars

C38_Witness ==
    /\ stopPc = "returned"
    /\ recPc = "apply"
    /\ toAdd # {}
    /\ cronEntries = EmptyMap
    /\ invEntry[1] = 1
    /\ pc[1] = "Ok"
    /\ pcAtStop[1] = "dispatch"

\* C39: an invocation that read a text that is not RFC3339 has a read
\* error, is not stopped by the guard, outside dry-run mode goes on to the
\* pre-save of now, makes no other SetVariable call (no rollback), and every
\* text any invocation passes to SetVariable parses as an RFC3339 instant, so
\* the variable holds such a text once a pre-save has succeeded.
C39_UnparseableValueIsOverwritten ==
    /\ \A h \in Handlers :
          (pc[h] \notin {"idle", "get"}
           /\ readValue[h] = ReadKind(GetVariable(BadText, FALSE)))
          => /\ getErr[h]
             /\ pc[h] \notin {"Guarded", "rollback", "RolledBack",
                              "RollbackFailed"}
             /\ (PastGuard(h) /\ ~dryRun) =>
                   (pc[h] = "presave" \/ Len(setVarArgs[h]) = 1)
             /\ Len(setVarArgs[h]) <= 1
             /\ \A i \in DOMAIN setVarArgs[h] :
                   setVarArgs[h][i] = FormatRFC3339(now[h])
    /\ \A h \in Handlers : \A i \in DOMAIN setVarArgs[h] :
          /\ setVarArgs[h][i] # BadText
          /\ ~ParseRFC3339(setVarArgs[h][i]).err
    /\ (\E h \in Handlers : preSave[h] = "ok") => ~ParseRFC3339(store).err

C39_Witness ==
    \E h \in Handlers :
        /\ readValue[h] = "bad"
        /\ guardSeconds > 0
        /\ pc[h] = "DispatchFailed"
        /\ setVarArgs[h] = <<FormatRFC3339(now[h])>>
        /\ store = FormatRFC3339(now[h])

====
